---- MODULE Spec2Model ----
(***************************************************************************)
(* A model of the strikeout projection core of mlb_k_model: rate           *)
(* resolution, log-odds fusion, the Monte Carlo simulators and the         *)
(* scripts that call them.                                                 *)
(*                                                                         *)
(* Numbers.  A rate or probability is a fraction n/d kept as the record    *)
(* [n |-> n, d |-> d] with d > 0 and compared by cross multiplication, so  *)
(* the arithmetic is exact.  Python's None is the record NONE, a raised    *)
(* exception the record RAISE.                                             *)
(***************************************************************************)
EXTENDS Integers, Sequences, FiniteSets, TLC

VARIABLES
    \* ---- one realization: sim_game of gen_simulations.py / k_pred_core.py
    impl,        \* which sim_game runs: "gen_simulations" or "k_pred_core"
    pks,         \* the probability vector handed to sim_game
    max_outs,    \* gen_simulations.sim_game's max_outs argument
    outs_lambda, \* k_pred_core.sim_game's outs_lambda argument
    outs,        \* outs counter (gen_simulations) / Poisson draw (k_pred_core)
    pas,         \* k_pred_core: int(outs * 1.15)
    k_count,     \* strikeouts accumulated so far
    idx,         \* gen_simulations: index of the next batter
    pa,          \* history: plate appearances resolved so far
    slot,        \* history: slot that took the last plate appearance
    ret,         \* the value sim_game returned
    gpc,         \* position in sim_game: "idle","call","loop","done","raised"
    \* ---- fusion: merge_prob of k_pred_core.py and the rates that reach it
    fcaller,     \* who calls merge_prob: "direct" or "today_k_proj"
    sc_p,        \* today_k_proj: the pitcher's Statcast pull (counts or "Exc")
    sc_b,        \* today_k_proj: the batter's Statcast pull (counts or "Exc")
    k_p,         \* the pitcher rate passed to merge_prob
    k_b,         \* the batter rate passed to merge_prob
    league,      \* the league rate passed to merge_prob
    fused,       \* what merge_prob returned, or "Raise"
    fpc,         \* position: "idle","rates","merge","done"
    \* ---- one side of one game in a script that calls sim_many
    caller,      \* "today_proj", "10_mlb_gen_simulations", "gen_simulations"
                 \* or "today_k_proj"
    args_line,   \* --line (today_k_proj: LINE)
    args_sims,   \* --sims (today_k_proj: SIMS)
    rp,          \* the pitcher's resolved rate
    batter_ps,   \* the resolved rates of the lineup's batters, in order
    p_rates,     \* the vector passed to sim_many
    sm_impl,     \* the module whose sim_many / sim_game is called
    sm_n,        \* sim_many's second positional parameter (n / sims)
    sm_outs,     \* sim_many's third parameter (outs_lambda / max_outs)
    results,     \* the realizations sim_many has collected
    exp_raw,     \* mean of the returned array
    p_raw,       \* share of the returned array at or over the threshold
    ppc,         \* position: "idle","start","sim","done","skipped","raised"
    run_no,      \* history: 1 in the first run of the script, 2 in the second
    first_run,   \* history: what the first run computed for the side
    \* ---- resolving one player's rate
    rcaller,     \* "today_proj", "10_mlb_gen_simulations" or "gen_simulations"
    role,        \* the player is resolved as a "pitcher" or as a "batter"
    api,         \* what the stats service answers for the player and season
    db_row,      \* gen_simulations: the player_stats row of the season's DB
    hist_rate,   \* 10_mlb_gen_simulations: hist_rate.get(pid), NONE if absent
    fetched,     \* what fetch_k_rate returned
    resolved,    \* the rate the script uses for the player
    rsource,     \* history: the step that gave it: "primary", "fallback",
                 \* "default"
    rpc,         \* position: "idle","fetch","chain","done"
    \* ---- one run of a projection script over the day's schedule
    bcaller,     \* "today_proj" or "today_k_proj"
    sched,       \* the sides of the schedule, away then home of each game
    kept,        \* the sides the loop goes over, in order
    bi,          \* position of the loop in kept
    out_rows,    \* results / out_rows: the sides a row was appended for
    printed,     \* what the loop printed about a side
    bpc,         \* position: "idle","start","loop","done","aborted"
    \* ---- calibration: the fit scripts and today_proj's use of the result
    ccaller,     \* "online_calibrate", "10_mlb_calibrate", "calibrate" (fit)
                 \* or "today_proj" (apply)
    rows,        \* fit: the frame read and joined, before dropna
    df,          \* fit: the frame the models are fitted on
    lin,         \* fit: the LinearRegression of this run, [slope, intercept]
    iso,         \* fit: the IsotonicRegression of this run, [th |-> its
                 \* thresholds]
    lin_pkl,     \* models/mlb_exp_lin.pkl: NONE or a linear model
    iso_pkl,     \* models/mlb_p_over_iso.pkl: NONE or isotonic thresholds
    cal_json,    \* models/calibration.json: NONE or [slope, intercept], a key
                 \* it lacks being NONE
    fit_no,      \* history: 1 in the first fit, 2 in the fit repeated
    first_fit,   \* history: what the first fit left in the three files
    slope,       \* apply: load_calibration's first result
    intercept,   \* apply: load_calibration's second result
    er_raw,      \* apply: sims.mean()
    pr_raw,      \* apply: (sims >= outs_thresh).mean()
    rec,         \* apply: the dict appended to results
    cprinted,    \* apply: what main printed about the calibration
    cpc,         \* position: "idle","load","lin","iso","save","done",
                 \* "raised","emit"
    procs,       \* overlapping refits: per process its position ("load",
                 \* "dump_lin","dump_iso","done","raised"), the frame it
                 \* read and the models it fitted
    \* ---- the harvest loop of build_historical_dataset.py
    hgames,      \* the final and other games of the seasons, in schedule order
    hg,          \* position of the loop in hgames
    hrows,       \* rows: [g, side] of each start appended
    skips,       \* the dict skips: a counter per skip reason
    hpc,         \* position: "idle","loop","done"
    \* ---- one side of one box score in stat_pull.pull_for_season
    players,     \* t["players"]: the pitching stats of a side, in dict order
    batters,     \* the batting stats of the lineup[:9], in order
    stat_rows,   \* rows: the rate records appended for the side
    spc,         \* position: "idle","side","done"
    \* ---- the join of the actual starts with the recorded raw outputs
    jcaller,     \* "online_calibrate" or "10_mlb_calibrate"
    truth,       \* historical_ks.csv: the starts harvested, with k_actual
    pred,        \* the raw outputs on file: cached_predictions.csv or
                 \* historical_ks_sim.csv
    jruns,       \* how many times the predictions of the day were cached
    joined,      \* df: the merged frame, before dropna
    jpc,         \* position: "idle","record","done","raised"
    \* ---- runs of kpred_sim.main writing resolved rates back
    table,       \* the rows [pid, k] of player_stats in
                 \* player_stats_<season>.duckdb
    table0,      \* history: the rows of the table before any run
    db_lock,     \* the run whose process has the database file open, 0 if none
    uruns        \* per run of kpred_sim.main: its position ("start",
                 \* "pitcher","batters","done","exited","raised"), --pitcher,
                 \* --batters, the batter reached and the frame df

gameVars == <<impl, pks, max_outs, outs_lambda, outs, pas, k_count, idx, pa,
              slot, ret, gpc>>
fuseVars == <<fcaller, sc_p, sc_b, k_p, k_b, league, fused, fpc>>
projVars == <<caller, args_line, args_sims, rp, batter_ps, p_rates, sm_impl,
              sm_n, sm_outs, results, exp_raw, p_raw, ppc, run_no, first_run>>

rateVars == <<rcaller, role, api, db_row, hist_rate, fetched, resolved,
              rsource, rpc>>

batchVars == <<bcaller, sched, kept, bi, out_rows, printed, bpc>>

calVars == <<ccaller, rows, df, lin, iso, lin_pkl, iso_pkl, cal_json, fit_no,
             first_fit, slope, intercept, er_raw, pr_raw, rec, cprinted, cpc,
             procs>>

harvVars == <<hgames, hg, hrows, skips, hpc>>

pullVars == <<players, batters, stat_rows, spc>>

joinVars == <<jcaller, truth, pred, jruns, joined, jpc>>

upsertVars == <<table, table0, db_lock, uruns>>

vars == <<gameVars, fuseVars, projVars, rateVars, batchVars, calVars,
    harvVars, pullVars, joinVars, upsertVars>>

\* what each component's actions leave alone
notGame == <<fuseVars, projVars, rateVars, batchVars, calVars, harvVars,
    pullVars, joinVars, upsertVars>>
notFuse == <<gameVars, projVars, rateVars, batchVars, calVars, harvVars,
    pullVars, joinVars, upsertVars>>
notProj == <<gameVars, fuseVars, rateVars, batchVars, calVars, harvVars,
    pullVars, joinVars, upsertVars>>
notRate == <<gameVars, fuseVars, projVars, batchVars, calVars, harvVars,
    pullVars, joinVars, upsertVars>>
notBatch == <<gameVars, fuseVars, projVars, rateVars, calVars, harvVars,
    pullVars, joinVars, upsertVars>>
notCal == <<gameVars, fuseVars, projVars, rateVars, batchVars, harvVars,
    pullVars, joinVars, upsertVars>>
notHarv == <<gameVars, fuseVars, projVars, rateVars, batchVars, calVars,
    pullVars, joinVars, upsertVars>>
notPull == <<gameVars, fuseVars, projVars, rateVars, batchVars, calVars,
    harvVars, joinVars, upsertVars>>
notJoin == <<gameVars, fuseVars, projVars, rateVars, batchVars, calVars,
    harvVars, pullVars, upsertVars>>
notUpsert == <<gameVars, fuseVars, projVars, rateVars, batchVars, calVars,
    harvVars, pullVars, joinVars>>

-----------------------------------------------------------------------------
(* Bounds of the model *)

MaxLen == 10
MaxOuts == 11
MaxPoisson == 3
MaxOpp == 5
MaxLine2 == 2
MaxSims == 2
MaxGames == 2
MaxPairs == 2
MaxSample == 3
MaxPlayers == 2
MaxBatters == 1
MaxStarts == 2
MaxCacheRuns == 2
MaxPid == 2

-----------------------------------------------------------------------------
(* Rates as exact fractions *)

Rate(n, d) == [n |-> n, d |-> d]
IsRate(x) == DOMAIN x = {"n", "d"}
NONE == [none |-> TRUE]
RAISE == [raise |-> TRUE]
EXC == [exc |-> TRUE]
Zero == Rate(0, 1)
One == Rate(1, 1)
RateLt(a, b) == a.n * b.d < b.n * a.d
RateEq(a, b) == a.n * b.d = b.n * a.d
RateLe(a, b) == a.n * b.d <= b.n * a.d
Interior(a) == RateLt(Zero, a) /\ RateLt(a, One)

\* league=0.20, the default of merge_prob
LEAGUE == Rate(1, 5)

-----------------------------------------------------------------------------
(* Random draws, as the set of values the draw can produce *)

\* np.random.rand() < p  (rand is uniform on [0,1)): TRUE needs p > 0, FALSE
\* needs p < 1.  np.random.binomial(1, p) has the same support.
Bernoulli(p) == {b \in BOOLEAN : IF b THEN RateLt(Zero, p) ELSE RateLt(p, One)}

\* np.random.poisson(lam): every natural number when lam > 0, only 0 when
\* lam = 0; capped at MaxPoisson.
Poisson(lam) == IF lam.n > 0 THEN 0..MaxPoisson ELSE {0}

\* np.random.randint(0, 9, pas): each element is one of 0..8
NSLOTS == 9
RandInt == 0..(NSLOTS - 1)

\* int(outs * 1.15)
Pas(o) == (o * 115) \div 100

\* outs_lambda: float = 18
DEFAULT_OUTS_LAMBDA == 18

-----------------------------------------------------------------------------
(* gen_simulations.sim_game *)

\* while outs < max_outs
sim_game_continue_le(o, m) == o <= m
sim_game_continue(o, m) == o < m

\* idx = (idx + 1) % n
next_idx_stay(i, n) == i % n
next_idx(i, n) == (i + 1) % n

GsEnter ==
    /\ gpc = "call" /\ impl = "gen_simulations"
    /\ k_count' = 0 /\ outs' = 0 /\ idx' = 0
    /\ gpc' = "loop"
    /\ UNCHANGED notGame
    /\ UNCHANGED <<impl, pks, max_outs, outs_lambda, pas, pa, slot, ret>>

\* one iteration of the while loop
GsStep ==
    /\ gpc = "loop" /\ impl = "gen_simulations"
    /\ sim_game_continue(outs, max_outs)
    /\ idx < Len(pks)
    /\ \E strike \in Bernoulli(pks[idx + 1]) :
          k_count' = IF strike THEN k_count + 1 ELSE k_count
    /\ outs' = outs + 1
    /\ idx' = next_idx(idx, Len(pks))
    /\ pa' = pa + 1 /\ slot' = idx
    /\ UNCHANGED notGame
    /\ UNCHANGED <<impl, pks, max_outs, outs_lambda, pas, ret, gpc>>

\* pks[idx] on an empty vector: IndexError
GsRaise ==
    /\ gpc = "loop" /\ impl = "gen_simulations"
    /\ sim_game_continue(outs, max_outs)
    /\ ~(idx < Len(pks))
    /\ gpc' = "raised"
    /\ UNCHANGED notGame
    /\ UNCHANGED <<impl, pks, max_outs, outs_lambda, outs, pas, k_count, idx,
                   pa, slot, ret>>

GsReturn ==
    /\ gpc = "loop" /\ impl = "gen_simulations"
    /\ ~sim_game_continue(outs, max_outs)
    /\ ret' = k_count /\ gpc' = "done"
    /\ UNCHANGED notGame
    /\ UNCHANGED <<impl, pks, max_outs, outs_lambda, outs, pas, k_count, idx,
                   pa, slot>>

-----------------------------------------------------------------------------
(* k_pred_core.sim_game *)

\* outs = np.random.poisson(outs_lambda); pas = int(outs * 1.15)
KpcDraw ==
    /\ gpc = "call" /\ impl = "k_pred_core"
    /\ \E o \in Poisson(outs_lambda) : outs' = o /\ pas' = Pas(o)
    /\ k_count' = 0
    /\ gpc' = "loop"
    /\ UNCHANGED notGame
    /\ UNCHANGED <<impl, pks, max_outs, outs_lambda, idx, pa, slot, ret>>

\* one element of order_idx = randint(0, 9, pas) and of
\* binomial(1, pks[order_idx]), added to the sum
KpcStep ==
    /\ gpc = "loop" /\ impl = "k_pred_core"
    /\ pa < pas
    /\ \E i \in RandInt :
          /\ i < Len(pks)
          /\ slot' = i
          /\ \E strike \in Bernoulli(pks[i + 1]) :
                k_count' = IF strike THEN k_count + 1 ELSE k_count
    /\ pa' = pa + 1
    /\ UNCHANGED notGame
    /\ UNCHANGED <<impl, pks, max_outs, outs_lambda, outs, pas, idx, ret, gpc>>

\* pks[order_idx] with an index past the end of pks: IndexError
KpcRaise ==
    /\ gpc = "loop" /\ impl = "k_pred_core"
    /\ pa < pas
    /\ \E i \in RandInt : ~(i < Len(pks))
    /\ gpc' = "raised"
    /\ UNCHANGED notGame
    /\ UNCHANGED <<impl, pks, max_outs, outs_lambda, outs, pas, k_count, idx,
                   pa, slot, ret>>

KpcReturn ==
    /\ gpc = "loop" /\ impl = "k_pred_core"
    /\ pa = pas
    /\ ret' = k_count /\ gpc' = "done"
    /\ UNCHANGED notGame
    /\ UNCHANGED <<impl, pks, max_outs, outs_lambda, outs, pas, k_count, idx,
                   pa, slot>>


-----------------------------------------------------------------------------
(* k_pred_core.merge_prob *)

\* The log-odds of p are kept as the odds p/(1-p) themselves, the exponential
\* of logit(p): a sum of logits is a product of odds, a difference a quotient,
\* and 1/(1+exp(-x)) of a logit x with odds o is o/(1+o).

\* logit(p) = math.log(p / (1 - p)) raises ZeroDivisionError at p = 1 and
\* ValueError at p <= 0 or p > 1
logit_raises(p) == ~Interior(p)
Odds(p) == Rate(p.n, p.d - p.n)
OddsMul(a, b) == Rate(a.n * b.n, a.d * b.d)
OddsDiv(a, b) == Rate(a.n * b.d, a.d * b.n)

\* 1 / (1 + math.exp(-merged))
Sigmoid(o) == Rate(o.n, o.n + o.d)

\* merged = logit(k_pitcher) + logit(k_batter) - logit(league)
merged_no_league(kp, kb, lg) == OddsMul(Odds(kp), Odds(kb))
merged_minus_batter(kp, kb, lg) == OddsDiv(OddsDiv(Odds(kp), Odds(kb)), Odds(lg))
merged(kp, kb, lg) == OddsDiv(OddsMul(Odds(kp), Odds(kb)), Odds(lg))

merge_prob(kp, kb, lg) ==
    IF logit_raises(kp) \/ logit_raises(kb) \/ logit_raises(lg)
    THEN RAISE
    ELSE Sigmoid(merged(kp, kb, lg))

-----------------------------------------------------------------------------
(* today_k_proj: Statcast rates and the call of merge_prob *)

\* a Statcast pull: it raised, or its frame has pas plate appearances (rows),
\* ks of them strikeouts
ScPulls ==
    {EXC} \cup {c \in [pas : 0..MaxOpp, ks : 0..MaxOpp] : c.ks <= c.pas}

\* rate = ks / pas if pas else 0.20; except Exception: rate = 0.20
sc_k_rate(sc) ==
    IF sc = EXC THEN LEAGUE
    ELSE IF sc.pas # 0 THEN Rate(sc.ks, sc.pas) ELSE LEAGUE

\* k_p = sc_k_rate_pitcher(pid); kb = sc_k_rate_batter(b)
ScRates ==
    /\ fpc = "rates" /\ fcaller = "today_k_proj"
    /\ k_p' = sc_k_rate(sc_p)
    /\ k_b' = sc_k_rate(sc_b)
    /\ fpc' = "merge"
    /\ UNCHANGED <<fcaller, sc_p, sc_b, league, fused>>
    /\ UNCHANGED notFuse

\* merge_prob(k_p, kb) / merge_prob(p, q, league)
Merge ==
    /\ fpc = "merge"
    /\ fused' = merge_prob(k_p, k_b, league)
    /\ fpc' = "done"
    /\ UNCHANGED <<fcaller, sc_p, sc_b, k_p, k_b, league>>
    /\ UNCHANGED notFuse


-----------------------------------------------------------------------------
(* What one call of sim_game can return, as a set                            *)

\* gen_simulations.sim_game from the loop state (outs = o, idx = i,
\* k_count = k) on
RECURSIVE gs_sim_game(_, _, _, _, _)
gs_sim_game(v, m, o, i, k) ==
    IF ~sim_game_continue(o, m) THEN {k}
    ELSE IF ~(i < Len(v)) THEN {}
    ELSE UNION {gs_sim_game(v, m, o + 1, next_idx(i, Len(v)),
                            IF b THEN k + 1 ELSE k) : b \in Bernoulli(v[i + 1])}

\* gen_simulations.sim_game raises: pks[idx] on an empty vector
gs_sim_game_raises(v, m) == sim_game_continue(0, m) /\ Len(v) = 0

\* k_pred_core.sim_game: the outcomes one plate appearance can have, its slot
\* being any of randint's values that index v
kpc_outcomes(v) ==
    UNION {Bernoulli(v[i + 1]) : i \in {j \in RandInt : j < Len(v)}}

\* binomial(1, pks[order_idx]).sum() from element e on, k so far
RECURSIVE kpc_sum(_, _, _, _)
kpc_sum(v, n, e, k) ==
    IF e = n THEN {k}
    ELSE UNION {kpc_sum(v, n, e + 1, IF b THEN k + 1 ELSE k) :
                   b \in kpc_outcomes(v)}

kpc_sim_game(v, lam) == UNION {kpc_sum(v, Pas(o), 0, 0) : o \in Poisson(lam)}

\* k_pred_core.sim_game raises: an index of order_idx is past the end of pks
kpc_sim_game_raises(v, lam) ==
    \E o \in Poisson(lam) : Pas(o) > 0 /\ \E i \in RandInt : ~(i < Len(v))

sim_game(m, v, a) ==
    IF m = "gen_simulations" THEN gs_sim_game(v, a.n, 0, 0, 0)
    ELSE kpc_sim_game(v, a)

sim_game_raises(m, v, a) ==
    IF m = "gen_simulations" THEN gs_sim_game_raises(v, a.n)
    ELSE kpc_sim_game_raises(v, a)

-----------------------------------------------------------------------------
(* The expectation of one call of sim_game, which the mean of sim_many's     *)
(* results tends to as the number of calls grows                             *)

RECURSIVE Gcd(_, _)
Gcd(a, b) == IF b = 0 THEN a ELSE Gcd(b, a % b)
Reduced(r) == Rate(r.n \div Gcd(r.n, r.d), r.d \div Gcd(r.n, r.d))
RateAdd(a, b) == Reduced(Rate(a.n * b.d + b.n * a.d, a.d * b.d))
RateMul(a, b) == Reduced(Rate(a.n * b.n, a.d * b.d))
RateTimes(k, a) == RateMul(Rate(k, 1), a)

\* gen_simulations.sim_game from the loop state (outs = o, idx = i) on: each
\* iteration adds 1 to k_count with probability pks[idx], and the number of
\* iterations does not depend on the draws
RECURSIVE gs_mean(_, _, _, _)
gs_mean(v, m, o, i) ==
    IF ~sim_game_continue(o, m) THEN Zero
    ELSE RateAdd(v[i + 1], gs_mean(v, m, o + 1, next_idx(i, Len(v))))

\* the mean of the first n entries of v from entry e on
RECURSIVE sum_from(_, _, _)
sum_from(v, e, n) ==
    IF e > n THEN Zero ELSE RateAdd(v[e], sum_from(v, e + 1, n))
mean_of(v, n) == RateMul(sum_from(v, 1, n), Rate(1, n))

\* k_pred_core.sim_game: every element of binomial(1, pks[order_idx]) is 1
\* with probability mean(pks[0:9]), its slot being uniform on 0..8, so a call
\* that drew o outs has expectation int(1.15 * o) * mean(pks[0:9]).  The mean
\* of the draw of outs is outs_lambda and int(1.15 * o) is at least
\* 1.15 * o - 1, so the expectation of a call is at least
\* (1.15 * outs_lambda - 1) * mean(pks[0:9])
kpc_mean_floor(v, lam) ==
    RateMul(Rate(115 * lam.n - 100 * lam.d, 100 * lam.d), mean_of(v, NSLOTS))

-----------------------------------------------------------------------------
(* The scripts that call sim_many, for one side of one game *)

\* int(args.line * 3)
int_line_3(line) == (line.n * 3) \div line.d

\* [rp] + batter_ps
pitcher_then_batters(r, bs) == <<r>> \o bs

\* [merge_prob(k_p, kb) for kb in kb_rates]
fused_per_batter(r, bs) == [i \in 1..Len(bs) |-> merge_prob(r, bs[i], LEAGUE)]

\* today_proj.main: p_rates = np.array([rp] + batter_ps);
\* sims = sim_many(p_rates, outs_thresh, args.sims)
TodayProjSide ==
    /\ ppc = "start" /\ caller = "today_proj"
    /\ p_rates' = pitcher_then_batters(rp, batter_ps)
    /\ sm_impl' = "k_pred_core"
    /\ sm_n' = int_line_3(args_line)
    /\ sm_outs' = Rate(args_sims, 1)
    /\ ppc' = "sim"
    /\ UNCHANGED <<caller, args_line, args_sims, rp, batter_ps, results,
                   exp_raw, p_raw>>
    /\ UNCHANGED <<run_no, first_run>>
    /\ UNCHANGED notProj

\* 10_mlb_gen_simulations.main: pks_arr = np.array([k_p] + ks_b);
\* sims = sim_many(pks_arr, args.sims, args.line)
MlbGenSide ==
    /\ ppc = "start" /\ caller = "10_mlb_gen_simulations"
    /\ p_rates' = pitcher_then_batters(rp, batter_ps)
    /\ sm_impl' = "k_pred_core"
    /\ sm_n' = args_sims
    /\ sm_outs' = args_line
    /\ ppc' = "sim"
    /\ UNCHANGED <<caller, args_line, args_sims, rp, batter_ps, results,
                   exp_raw, p_raw>>
    /\ UNCHANGED <<run_no, first_run>>
    /\ UNCHANGED notProj

\* gen_simulations.main: pks = np.array([rp] + batter_rates);
\* sim = sim_many(pks, args.sims, max_outs)
GenSimSide ==
    /\ ppc = "start" /\ caller = "gen_simulations"
    /\ p_rates' = pitcher_then_batters(rp, batter_ps)
    /\ sm_impl' = "gen_simulations"
    /\ sm_n' = args_sims
    /\ sm_outs' = Rate(int_line_3(args_line), 1)
    /\ ppc' = "sim"
    /\ UNCHANGED <<caller, args_line, args_sims, rp, batter_ps, results,
                   exp_raw, p_raw>>
    /\ UNCHANGED <<run_no, first_run>>
    /\ UNCHANGED notProj

\* today_k_proj: a lineup of fewer than 9 is passed over; otherwise
\* pks = [merge_prob(k_p, kb) for kb in kb_rates]; sims = sim_many(pks, SIMS)
TodayKProjSide ==
    /\ ppc = "start" /\ caller = "today_k_proj"
    /\ IF Len(batter_ps) < NSLOTS
       THEN /\ ppc' = "skipped"
            /\ UNCHANGED <<p_rates, sm_impl, sm_n, sm_outs>>
       ELSE IF RAISE \in {fused_per_batter(rp, batter_ps)[i] :
                             i \in 1..Len(batter_ps)}
       THEN /\ ppc' = "raised"
            /\ UNCHANGED <<p_rates, sm_impl, sm_n, sm_outs>>
       ELSE /\ p_rates' = fused_per_batter(rp, batter_ps)
            /\ sm_impl' = "k_pred_core"
            /\ sm_n' = args_sims
            /\ sm_outs' = Rate(DEFAULT_OUTS_LAMBDA, 1)
            /\ ppc' = "sim"
    /\ UNCHANGED <<caller, args_line, args_sims, rp, batter_ps, results,
                   exp_raw, p_raw>>
    /\ UNCHANGED <<run_no, first_run>>
    /\ UNCHANGED notProj

\* sim_many: one more realization
\*   k_pred_core:     np.fromiter((sim_game(pks, outs_lambda)
\*                                 for _ in range(n)), dtype=int, count=n)
\*   gen_simulations: for i in range(sims): results[i] = sim_game(pks, max_outs)
sim_many_continue_always(len, n) == len < n + 1
sim_many_continue(len, n) == len < n

SimManyStep ==
    /\ ppc = "sim"
    /\ sim_many_continue(Len(results), sm_n)
    /\ \E k \in sim_game(sm_impl, p_rates, sm_outs) :
          results' = Append(results, k)
    /\ UNCHANGED <<caller, args_line, args_sims, rp, batter_ps, p_rates,
                   sm_impl, sm_n, sm_outs, exp_raw, p_raw, ppc>>
    /\ UNCHANGED <<run_no, first_run>>
    /\ UNCHANGED notProj

\* a realization raises and the exception leaves sim_many and the script
SimManyRaise ==
    /\ ppc = "sim"
    /\ sim_many_continue(Len(results), sm_n)
    /\ sim_game_raises(sm_impl, p_rates, sm_outs)
    /\ ppc' = "raised"
    /\ UNCHANGED <<caller, args_line, args_sims, rp, batter_ps, p_rates,
                   sm_impl, sm_n, sm_outs, results, exp_raw, p_raw>>
    /\ UNCHANGED <<run_no, first_run>>
    /\ UNCHANGED notProj

RECURSIVE SumSeq(_)
SumSeq(q) == IF q = <<>> THEN 0 ELSE Head(q) + SumSeq(Tail(q))

\* (sims >= t).mean() and sims.mean(); nan (NONE) on an empty array
CountGE(q, t) == Cardinality({i \in DOMAIN q : q[i] * t.d >= t.n})
MeanGE(q, t) == IF q = <<>> THEN NONE ELSE Rate(CountGE(q, t), Len(q))
Mean(q) == IF q = <<>> THEN NONE ELSE Rate(SumSeq(q), Len(q))

\* the value the script compares the counts with
\*   today_proj:             (sims >= outs_thresh).mean()
\*   gen_simulations:        (sim >= max_outs).mean()
\*   10_mlb_gen_simulations: np.mean(sims >= args.line)
\*   today_k_proj:           (sims >= LINE).mean()
p_over_threshold_line(c, line) == line
p_over_threshold(c, line) ==
    IF c \in {"today_proj", "gen_simulations"}
    THEN Rate(int_line_3(line), 1)
    ELSE line

\* sim_many returns; the script takes the mean and the share over the line
Summarise ==
    /\ ppc = "sim"
    /\ ~sim_many_continue(Len(results), sm_n)
    /\ exp_raw' = Mean(results)
    /\ p_raw' = MeanGE(results, p_over_threshold(caller, args_line))
    /\ ppc' = "done"
    /\ UNCHANGED <<caller, args_line, args_sims, rp, batter_ps, p_rates,
                   sm_impl, sm_n, sm_outs, results>>
    /\ UNCHANGED <<run_no, first_run>>
    /\ UNCHANGED notProj

\* the script is started a second time on the same side with the same
\* arguments and the same rates.  Neither sim_game nor sim_many takes a seed
\* or a generator and no script seeds numpy's global generator, so the draws
\* of the second process are again any draws.
RunAgain ==
    /\ ppc = "done" /\ run_no = 1
    /\ first_run' = [results |-> results, exp_raw |-> exp_raw,
                     p_raw |-> p_raw]
    /\ run_no' = 2
    /\ p_rates' = <<>> /\ sm_impl' = "none" /\ sm_n' = 0 /\ sm_outs' = Zero
    /\ results' = <<>> /\ exp_raw' = NONE /\ p_raw' = NONE
    /\ ppc' = "start"
    /\ UNCHANGED <<caller, args_line, args_sims, rp, batter_ps>>
    /\ UNCHANGED notProj


-----------------------------------------------------------------------------
(* Rate resolution: kpred_sim.fetch_k_rate, gen_simulations.get_rate and     *)
(* the scripts' fallbacks                                                    *)

\* DEFAULT / GLOBAL_DEFAULT / FALLBACK_DEFAULT = 0.252
GLOBAL_DEFAULT == Rate(63, 250)

\* a key the stat dictionary does not hold: stat.get(key) is None
MISSING == 0 - 1
\* stat.get(key) or 0
get_or_0(x) == IF x = MISSING THEN 0 ELSE x

\* the answers of statsapi.get("stats", ...): the call or the indexing
\* raised, js["stats"][0]["splits"] is empty, or splits[0]["stat"]
NOSPLITS == [splits |-> 0]
IsStat(a) == DOMAIN a = {"strikeOuts", "battersFaced", "plateAppearances"}

\* return k / bf if bf else None
rate_or_none(k, opp) == IF opp # 0 THEN Rate(k, opp) ELSE NONE

\* the stat fetch_k_rate divides by
\*   if group == "pitching": battersFaced   else: plateAppearances
opportunities_field(group) ==
    IF group = "pitching" THEN "battersFaced" ELSE "plateAppearances"

fetch_k_rate(a, group) ==
    IF a = EXC THEN NONE
    ELSE IF a = NOSPLITS THEN NONE
    ELSE rate_or_none(get_or_0(a.strikeOuts),
                      get_or_0(a[opportunities_field(group)]))

\* Python truth of a float or None: None and 0.0 are false
truthy(x) == x # NONE /\ x.n # 0

\* today_proj / 10_mlb_gen_simulations:
\*   fetch_k_rate(pid, season, 'pitcher'), fetch_k_rate(b, season, 'batter')
FetchKRate ==
    /\ rpc = "fetch" /\ rcaller \in {"today_proj", "10_mlb_gen_simulations"}
    /\ fetched' = fetch_k_rate(api, role)
    /\ rpc' = "chain"
    /\ UNCHANGED <<rcaller, role, api, db_row, hist_rate, resolved, rsource>>
    /\ UNCHANGED notRate

\* today_proj.main: rp = fetch_k_rate(pid, season, 'pitcher') or DEFAULT
\*                  fetch_k_rate(b, season, 'batter') or DEFAULT
TodayProjRate ==
    /\ rpc = "chain" /\ rcaller = "today_proj"
    /\ IF truthy(fetched)
       THEN resolved' = fetched /\ rsource' = "primary"
       ELSE resolved' = GLOBAL_DEFAULT /\ rsource' = "default"
    /\ rpc' = "done"
    /\ UNCHANGED <<rcaller, role, api, db_row, hist_rate, fetched>>
    /\ UNCHANGED notRate

\* 10_mlb_gen_simulations.main
\*   pitcher: raw_p if raw_p is not None, elif pid in hist_rate:
\*            hist_rate[pid], else GLOBAL_DEFAULT
\*   batter:  rb if rb is not None else GLOBAL_DEFAULT
MlbGenRate ==
    /\ rpc = "chain" /\ rcaller = "10_mlb_gen_simulations"
    /\ IF fetched # NONE
       THEN resolved' = fetched /\ rsource' = "primary"
       ELSE IF role = "pitcher" /\ hist_rate # NONE
       THEN resolved' = hist_rate /\ rsource' = "fallback"
       ELSE resolved' = GLOBAL_DEFAULT /\ rsource' = "default"
    /\ rpc' = "done"
    /\ UNCHANGED <<rcaller, role, api, db_row, hist_rate, fetched>>
    /\ UNCHANGED notRate

\* the rows of player_stats the query can find: none, one whose k_rate is
\* NULL, one with a rate
NOROW == [row |-> 0]
NULLRATE == [k_rate |-> 0]

\* gen_simulations.get_rate:
\*   res[0] if res and res[0] is not None else FALLBACK_DEFAULT
\*   except Exception: FALLBACK_DEFAULT
GetRate ==
    /\ rpc = "fetch" /\ rcaller = "gen_simulations"
    /\ IF db_row \in {EXC, NOROW, NULLRATE}
       THEN resolved' = GLOBAL_DEFAULT /\ rsource' = "default"
       ELSE resolved' = db_row /\ rsource' = "primary"
    /\ rpc' = "done"
    /\ UNCHANGED <<rcaller, role, api, db_row, hist_rate, fetched>>
    /\ UNCHANGED notRate

-----------------------------------------------------------------------------
(* The loop over the day's sides: today_proj.main and today_k_proj           *)

\* --line default=6.5 (today_k_proj: LINE = 6.5), --sims default=10000
DEFAULT_LINE == Rate(13, 2)
DEFAULT_SIMS == 10000

\* a lineup column holding a token int() cannot parse
BADTOKEN == [bad |-> TRUE]
HasLen(l) == DOMAIN l = {"len"}

\* sched.dropna(subset=['away_pid', 'home_pid', 'away_lineup', 'home_lineup']):
\* a game stays when neither side misses its pitcher id or its lineup
complete_side(sd) == sd.pid /\ sd.lineup # NONE
game_sides(i) == {2 * ((i + 1) \div 2) - 1, 2 * ((i + 1) \div 2)}
dropna(sc) ==
    SelectSeq([i \in 1..Len(sc) |-> i],
              LAMBDA i : \A j \in game_sides(i) : complete_side(sc[j]))

\* today_proj.main up to the loop: dropna; "No valid games ... Exiting" when
\* nothing is left
TodayProjStart ==
    /\ bpc = "start" /\ bcaller = "today_proj"
    /\ kept' = dropna(sched)
    /\ IF kept' = <<>> THEN bpc' = "done" /\ bi' = 0
                       ELSE bpc' = "loop" /\ bi' = 1
    /\ UNCHANGED <<bcaller, sched, out_rows, printed>>
    /\ UNCHANGED notBatch

\* today_k_proj: for _, g in sched_df.iterrows(): for side in ("away", "home")
TodayKProjStart ==
    /\ bpc = "start" /\ bcaller = "today_k_proj"
    /\ kept' = [i \in 1..Len(sched) |-> i]
    /\ bpc' = "loop" /\ bi' = 1
    /\ UNCHANGED <<bcaller, sched, out_rows, printed>>
    /\ UNCHANGED notBatch

\* np.array([rp] + batter_ps) for a lineup of n batters: every rate is
\* fetch_k_rate(...) or DEFAULT
side_rates(n) == [j \in 1..(n + 1) |-> GLOBAL_DEFAULT]

\* sim_many(p_rates, outs_thresh, args.sims) raises / returns
sim_many_raises(v, n, lam) == n >= 1 /\ sim_game_raises("k_pred_core", v, lam)
sim_many_returns(v, n, lam) == n = 0 \/ sim_game("k_pred_core", v, lam) # {}

\* today_proj.main, one turn of the loop over the sides
\*   lineup = [int(x) for x in getattr(g, f'{side}_lineup').split(',') if x]
\*   ... sims = sim_many(p_rates, outs_thresh, args.sims) ... results.append
TodayProjLoop ==
    /\ bpc = "loop" /\ bcaller = "today_proj"
    /\ bi <= Len(kept)
    /\ LET i == kept[bi]
           sd == sched[i]
       IN IF sd.lineup = BADTOKEN
          THEN bpc' = "aborted" /\ UNCHANGED <<bi, out_rows>>
          ELSE LET v == side_rates(sd.lineup.len)
                   n == int_line_3(DEFAULT_LINE)
                   lam == Rate(DEFAULT_SIMS, 1)
               IN \/ /\ sim_many_raises(v, n, lam)
                     /\ bpc' = "aborted" /\ UNCHANGED <<bi, out_rows>>
                  \/ /\ sim_many_returns(v, n, lam)
                     /\ out_rows' = Append(out_rows, i)
                     /\ bi' = bi + 1
                     /\ UNCHANGED bpc
    /\ UNCHANGED <<bcaller, sched, kept, printed>>
    /\ UNCHANGED notBatch

\* today_k_proj, one turn of the loop over the sides
\*   pid = int(getattr(g, f"{side}_prob_id"))           int(nan): ValueError
\*   if len(lineup) < 9: lineup = roster_lineup(team_id)
\*   if len(lineup) < 9: print("... lineup incomplete"); continue
\*   pks = [merge_prob(k_p, kb) for kb in kb_rates]; sims = sim_many(pks, SIMS)
TodayKProjLoop ==
    /\ bpc = "loop" /\ bcaller = "today_k_proj"
    /\ bi <= Len(kept)
    /\ LET i == kept[bi]
           sd == sched[i]
           lineup == IF sd.lineup.len < NSLOTS THEN sd.roster ELSE sd.lineup
       IN IF ~sd.pid \/ lineup = EXC
          THEN bpc' = "aborted" /\ UNCHANGED <<bi, out_rows, printed>>
          ELSE IF lineup.len < NSLOTS
          THEN /\ printed' = Append(printed,
                                    [side |-> i, msg |-> "lineup incomplete"])
               /\ bi' = bi + 1
               /\ UNCHANGED <<bpc, out_rows>>
          ELSE \/ /\ \E sp \in ScPulls, sb \in ScPulls :
                        merge_prob(sc_k_rate(sp), sc_k_rate(sb), LEAGUE) = RAISE
                  /\ bpc' = "aborted" /\ UNCHANGED <<bi, out_rows, printed>>
               \/ /\ \E sp \in ScPulls, sb \in ScPulls :
                        merge_prob(sc_k_rate(sp), sc_k_rate(sb), LEAGUE) # RAISE
                  /\ out_rows' = Append(out_rows, i)
                  /\ printed' = Append(printed, [side |-> i, msg |-> "ExpKs"])
                  /\ bi' = bi + 1
                  /\ UNCHANGED bpc
    /\ UNCHANGED <<bcaller, sched, kept>>
    /\ UNCHANGED notBatch

\* the loop is over: the rows are written to the day's CSV
BatchSave ==
    /\ bpc = "loop"
    /\ bi > Len(kept)
    /\ bpc' = "done"
    /\ UNCHANGED <<bcaller, sched, kept, bi, out_rows, printed>>
    /\ UNCHANGED notBatch

-----------------------------------------------------------------------------
(* The harvest loop of build_historical_dataset.py                           *)

\* skips = dict(not_final=0, box_err=0, no_sp=0, k_missing=0, bad_lineup=0)
NO_SKIPS ==
    [not_final |-> 0, box_err |-> 0, no_sp |-> 0, k_missing |-> 0,
     bad_lineup |-> 0]

\* what the loop over the two sides does with a side: k_act is None, the
\* lineup extract_lineup returns is not of nine, or the row is appended
side_outcome(sd) ==
    IF ~sd.k THEN "k_missing"
    ELSE IF sd.lineup.len # NSLOTS THEN "bad_lineup"
    ELSE "row"

\* how many of the two sides of game g end with outcome o
sides_with(g, o) ==
    Cardinality({sn \in {"away", "home"} : side_outcome(g[sn]) = o})

\* one turn of "for g in d['games']": the game is not Final, its box score
\* cannot be fetched, a side has no starting pitcher, or both sides are gone
\* through
HarvestGame ==
    /\ hpc = "loop"
    /\ hg <= Len(hgames)
    /\ LET g == hgames[hg]
       IN IF g.status # "Final"
          THEN /\ skips' = [skips EXCEPT !.not_final = @ + 1]
               /\ UNCHANGED hrows
          ELSE IF ~g.box
          THEN /\ skips' = [skips EXCEPT !.box_err = @ + 1]
               /\ UNCHANGED hrows
          ELSE IF ~g.away.sp \/ ~g.home.sp
          THEN /\ skips' = [skips EXCEPT !.no_sp = @ + 1]
               /\ UNCHANGED hrows
          ELSE /\ skips' =
                    [skips EXCEPT
                        !.k_missing = @ + sides_with(g, "k_missing"),
                        !.bad_lineup = @ + sides_with(g, "bad_lineup")]
               /\ hrows' =
                    hrows
                    \o (IF side_outcome(g.away) = "row"
                        THEN <<[g |-> hg, side |-> "away"]>> ELSE <<>>)
                    \o (IF side_outcome(g.home) = "row"
                        THEN <<[g |-> hg, side |-> "home"]>> ELSE <<>>)
    /\ hg' = hg + 1
    /\ UNCHANGED <<hgames, hpc>>
    /\ UNCHANGED notHarv

\* the loop is over: print("Skip counts:", skips) and the rows are saved
HarvestSave ==
    /\ hpc = "loop"
    /\ hg > Len(hgames)
    /\ hpc' = "done"
    /\ UNCHANGED <<hgames, hg, hrows, skips>>
    /\ UNCHANGED notHarv

-----------------------------------------------------------------------------
(* stat_pull.pull_for_season, one side of one box score                      *)

\* outs_from_ip("w.f") = int(w) * 3 + int(f); a missing inningsPitched is
\* read as "0.0"
outs_from_ip(ip) == ip.w * 3 + ip.f

\* the loop that picks the starter: the first player with gamesStarted >= 1
\* ends it, otherwise the player with the most outs so far is kept.  The
\* result is the position of the starter (0: none) and max_outs as the loop
\* left it.
RECURSIVE pick_starter(_, _, _, _)
pick_starter(ps, i, starter, mo) ==
    IF i > Len(ps) THEN [starter |-> starter, max_outs |-> mo]
    ELSE IF ps[i].gamesStarted >= 1 THEN [starter |-> i, max_outs |-> mo]
    ELSE IF outs_from_ip(ps[i].inningsPitched) > mo
    THEN pick_starter(ps, i + 1, i, outs_from_ip(ps[i].inningsPitched))
    ELSE pick_starter(ps, i + 1, starter, mo)

\* opps = pitch_stats.get("battersFaced") or max_outs
opps(bf, mo) == IF bf # MISSING /\ bf # 0 THEN bf ELSE mo

\* the pitcher row of the side
pitcher_row(ps) ==
    LET pk == pick_starter(ps, 1, 0, 0 - 1)
    IN [player_role |-> "pitcher",
        k_total |-> get_or_0(ps[pk.starter].strikeOuts),
        opportunities |-> opps(ps[pk.starter].battersFaced, pk.max_outs)]

\* opp_b = bat_stat.get("plateAppearances", bat_stat.get("atBats", 0)) or 0
opp_b(b) ==
    IF b.plateAppearances # MISSING THEN b.plateAppearances
    ELSE get_or_0(b.atBats)

batter_row(b) ==
    [player_role |-> "batter", k_total |-> get_or_0(b.strikeOuts),
     opportunities |-> opp_b(b)]

\* the body of "for side in ('away', 'home')": no starter, nothing is
\* appended; otherwise the pitcher row and a row per batter of the lineup
PullSide ==
    /\ spc = "side"
    /\ IF pick_starter(players, 1, 0, 0 - 1).starter = 0
       THEN UNCHANGED stat_rows
       ELSE stat_rows' =
                stat_rows \o <<pitcher_row(players)>>
                \o [i \in 1..Len(batters) |-> batter_row(batters[i])]
    /\ spc' = "done"
    /\ UNCHANGED <<players, batters>>
    /\ UNCHANGED notPull

-----------------------------------------------------------------------------
(* Calibration, fit path: online_calibrate.main, 10_mlb_calibrate.main and   *)
(* calibrate.main                                                            *)

\* exact arithmetic on fractions with positive denominators
RAdd(a, b) == Rate(a.n * b.d + b.n * a.d, a.d * b.d)
RSub(a, b) == Rate(a.n * b.d - b.n * a.d, a.d * b.d)
RMul(a, b) == Rate(a.n * b.n, a.d * b.d)

\* a row of the joined frame: exp (exp_raw / exp_ks), p (p_raw / p_over, in
\* thousandths) and k (k_actual), NAN where the cell is empty
NAN == 0 - 1
PUNIT == 1000

\* .dropna(subset=["exp_raw", "k_actual", "p_raw"])
dropna_rows(r) == SelectSeq(r, LAMBDA x : x.exp # NAN /\ x.k # NAN /\ x.p # NAN)
has_nan(r) == \E i \in DOMAIN r : r[i].exp = NAN \/ r[i].k = NAN

\* LinearRegression().fit(X, y) on X = exp, y = k: least squares; when every
\* X is the same the slope is 0 and the intercept the mean of y
lin_slope(d) ==
    LET n == Len(d)
        Sx == SumSeq([i \in 1..n |-> d[i].exp])
        Sy == SumSeq([i \in 1..n |-> d[i].k])
        Sxx == SumSeq([i \in 1..n |-> d[i].exp * d[i].exp])
        Sxy == SumSeq([i \in 1..n |-> d[i].exp * d[i].k])
    IN IF n * Sxx - Sx * Sx = 0 THEN Zero
       ELSE Rate(n * Sxy - Sx * Sy, n * Sxx - Sx * Sx)
lin_intercept(d, a) ==
    LET n == Len(d)
        Sx == SumSeq([i \in 1..n |-> d[i].exp])
        Sy == SumSeq([i \in 1..n |-> d[i].k])
    IN Rate(Sy * a.d - a.n * Sx, n * a.d)
lin_fit(d) ==
    [slope |-> lin_slope(d), intercept |-> lin_intercept(d, lin_slope(d))]
\* fit raises ValueError on an empty frame and on a NaN cell
lin_fit_raises(d) == Len(d) = 0 \/ has_nan(d)

\* y_bin = (df.k_actual >= args.line).astype(int)
y_bin(x, line) == IF x.k * line.d >= line.n THEN 1 ELSE 0

\* IsotonicRegression.fit, first step: the distinct values of X in increasing
\* order, each with the sum s and the number w of the targets observed at it
RECURSIVE SortedSeq(_)
SortedSeq(S) ==
    IF S = {} THEN <<>>
    ELSE LET m == CHOOSE x \in S : \A y \in S : x <= y
         IN <<m>> \o SortedSeq(S \ {m})
unique_x(d, line) ==
    LET xs == SortedSeq({d[i].p : i \in DOMAIN d})
    IN [j \in 1..Len(xs) |->
          LET at == {i \in DOMAIN d : d[i].p = xs[j]}
          IN [lo |-> j, hi |-> j,
              s |-> Cardinality({i \in at : y_bin(d[i], line) = 1}),
              w |-> Cardinality(at)]]

\* pool adjacent violators: a block whose mean is not above the mean of the
\* block before it is merged into it
pool(a, b) == [lo |-> a.lo, hi |-> b.hi, s |-> a.s + b.s, w |-> a.w + b.w]
RECURSIVE pava_push(_, _)
pava_push(st, b) ==
    IF st = <<>> THEN <<b>>
    ELSE LET t == st[Len(st)]
         IN IF t.s * b.w < b.s * t.w THEN Append(st, b)
            ELSE pava_push(SubSeq(st, 1, Len(st) - 1), pool(t, b))
RECURSIVE pava(_, _, _)
pava(u, j, st) ==
    IF j > Len(u) THEN st ELSE pava(u, j + 1, pava_push(st, u[j]))

\* the fitted value at the j-th distinct X
fitted_y(blocks, j) ==
    LET b == CHOOSE c \in {blocks[i] : i \in DOMAIN blocks} :
                 c.lo <= j /\ j <= c.hi
    IN Rate(b.s, b.w)

\* X_thresholds_, y_thresholds_: the distinct X with their fitted values, an
\* interior point between two equal neighbours left out
iso_fit(d, line) ==
    LET xs == SortedSeq({d[i].p : i \in DOMAIN d})
        blocks == pava(unique_x(d, line), 1, <<>>)
        n == Len(xs)
        all == [j \in 1..n |-> [x |-> xs[j], y |-> fitted_y(blocks, j)]]
        keep == {j \in 1..n :
                    \/ j = 1 \/ j = n
                    \/ ~RateEq(all[j].y, all[j - 1].y)
                    \/ ~RateEq(all[j].y, all[j + 1].y)}
        ks == SortedSeq(keep)
    IN [j \in 1..Len(ks) |-> all[ks[j]]]

\* out_of_bounds="clip": np.clip(T, X_min_, X_max_)
iso_clip_off(t, lo, hi) == t
iso_clip(t, lo, hi) == IF t < lo THEN lo ELSE IF t > hi THEN hi ELSE t

\* linear interpolation between the thresholds, nan outside them; a single
\* threshold is a constant
interp(th, t) ==
    IF Len(th) = 1 THEN th[1].y
    ELSE IF t < th[1].x \/ t > th[Len(th)].x THEN NONE
    ELSE LET i == CHOOSE j \in 1..(Len(th) - 1) :
                     th[j].x <= t /\ t <= th[j + 1].x
             a == th[i]
             b == th[i + 1]
         IN RAdd(a.y, RMul(Rate(t - a.x, b.x - a.x), RSub(b.y, a.y)))

\* iso.predict(t)
iso_predict(th, t) == interp(th, iso_clip(t, th[1].x, th[Len(th)].x))

\* open(path, "wb") / json_path.open("w") and dump: the file holds the new
\* object alone
write_ab(old, new) == IF old = NONE THEN new ELSE old
write_wb(old, new) == new

\* the script reads its inputs: pd.read_csv, merge, dropna (calibrate.py reads
\* one file and drops nothing)
FitLoad ==
    /\ cpc = "load" /\ ccaller # "today_proj"
    /\ df' = IF ccaller = "calibrate" THEN rows ELSE dropna_rows(rows)
    /\ cpc' = "lin"
    /\ UNCHANGED <<ccaller, rows, lin, iso, lin_pkl, iso_pkl, cal_json, fit_no,
                   first_fit, slope, intercept, er_raw, pr_raw, rec, cprinted>>
    /\ UNCHANGED procs
    /\ UNCHANGED notCal

\* lin = LinearRegression().fit(X, y)
FitLinear ==
    /\ cpc = "lin"
    /\ IF lin_fit_raises(df)
       THEN cpc' = "raised" /\ UNCHANGED lin
       ELSE /\ lin' = lin_fit(df)
            /\ cpc' = IF ccaller = "calibrate" THEN "save" ELSE "iso"
    /\ UNCHANGED <<ccaller, rows, df, iso, lin_pkl, iso_pkl, cal_json, fit_no,
                   first_fit, slope, intercept, er_raw, pr_raw, rec, cprinted>>
    /\ UNCHANGED procs
    /\ UNCHANGED notCal

\* iso = IsotonicRegression(out_of_bounds="clip").fit(df["p_raw"], y_bin)
FitIso ==
    /\ cpc = "iso"
    /\ iso' = [th |-> iso_fit(df, DEFAULT_LINE)]
    /\ cpc' = "save"
    /\ UNCHANGED <<ccaller, rows, df, lin, lin_pkl, iso_pkl, cal_json, fit_no,
                   first_fit, slope, intercept, er_raw, pr_raw, rec, cprinted>>
    /\ UNCHANGED procs
    /\ UNCHANGED notCal

\* pickle.dump(lin, f); pickle.dump(iso, f)   (calibrate.py: json.dump(params))
FitSave ==
    /\ cpc = "save"
    /\ IF ccaller = "calibrate"
       THEN /\ cal_json' = write_wb(cal_json, lin)
            /\ UNCHANGED <<lin_pkl, iso_pkl>>
       ELSE /\ lin_pkl' = write_wb(lin_pkl, lin)
            /\ iso_pkl' = write_wb(iso_pkl, iso)
            /\ UNCHANGED cal_json
    /\ first_fit' = IF fit_no = 1 THEN <<lin_pkl', iso_pkl', cal_json'>>
                    ELSE first_fit
    /\ cpc' = "done"
    /\ UNCHANGED <<ccaller, rows, df, lin, iso, fit_no, slope, intercept,
                   er_raw, pr_raw, rec, cprinted>>
    /\ UNCHANGED procs
    /\ UNCHANGED notCal

\* models a fit before this one can have left in models/
PRIOR_LIN == [slope |-> One, intercept |-> Zero]
PRIOR_ISO == [th |-> <<[x |-> 0, y |-> Zero], [x |-> PUNIT, y |-> One]>>]
Priors ==
    {[lin |-> NONE, iso |-> NONE, json |-> NONE],
     [lin |-> PRIOR_LIN, iso |-> PRIOR_ISO, json |-> PRIOR_LIN]}

\* the script is run once more on the same input files, whatever models/
\* holds by then
Refit ==
    /\ cpc = "done" /\ fit_no = 1
    /\ \E pr \in Priors :
          lin_pkl' = pr.lin /\ iso_pkl' = pr.iso /\ cal_json' = pr.json
    /\ df' = <<>> /\ lin' = NONE /\ iso' = NONE
    /\ fit_no' = 2
    /\ cpc' = "load"
    /\ UNCHANGED <<ccaller, rows, first_fit, slope, intercept, er_raw, pr_raw,
                   rec, cprinted>>
    /\ UNCHANGED procs
    /\ UNCHANGED notCal

-----------------------------------------------------------------------------
(* Refits that overlap: online_calibrate.main called at the end of two       *)
(* today_proj processes                                                      *)

\* process q reads the predictions and the truth as they are when it gets
\* there, and fits both models on the joined frame (in its own memory)
OverlapFit ==
    \E q \in DOMAIN procs :
        /\ procs[q].pc = "load"
        /\ LET d == dropna_rows(procs[q].frame)
           IN IF lin_fit_raises(d)
              THEN procs' = [procs EXCEPT ![q].pc = "raised"]
              ELSE procs' = [procs EXCEPT
                                ![q].pc = "dump_lin",
                                ![q].lin = lin_fit(d),
                                ![q].iso = [th |-> iso_fit(d, DEFAULT_LINE)]]
        /\ UNCHANGED <<ccaller, rows, df, lin, iso, lin_pkl, iso_pkl,
                       cal_json, fit_no, first_fit, slope, intercept, er_raw,
                       pr_raw, rec, cprinted, cpc>>
        /\ UNCHANGED notCal

\* with open(args.models / "mlb_exp_lin.pkl", "wb") as f: pickle.dump(lin, f)
OverlapDumpLin ==
    \E q \in DOMAIN procs :
        /\ procs[q].pc = "dump_lin"
        /\ lin_pkl' = write_wb(lin_pkl, procs[q].lin)
        /\ procs' = [procs EXCEPT ![q].pc = "dump_iso"]
        /\ UNCHANGED <<ccaller, rows, df, lin, iso, iso_pkl, cal_json,
                       fit_no, first_fit, slope, intercept, er_raw, pr_raw,
                       rec, cprinted, cpc>>
        /\ UNCHANGED notCal

\* with open(args.models / "mlb_p_over_iso.pkl", "wb") as f:
\*     pickle.dump(iso, f)
OverlapDumpIso ==
    \E q \in DOMAIN procs :
        /\ procs[q].pc = "dump_iso"
        /\ iso_pkl' = write_wb(iso_pkl, procs[q].iso)
        /\ procs' = [procs EXCEPT ![q].pc = "done"]
        /\ UNCHANGED <<ccaller, rows, df, lin, iso, lin_pkl, cal_json,
                       fit_no, first_fit, slope, intercept, er_raw, pr_raw,
                       rec, cprinted, cpc>>
        /\ UNCHANGED notCal

-----------------------------------------------------------------------------
(* The join of the fit scripts: online_calibrate.main and                    *)
(* 10_mlb_calibrate.main, and the files they join                            *)

\* the columns the two frames are merged on
\*   online_calibrate: on=["game_pk", "side", "pitcher_id"]
\*   10_mlb_calibrate: on=["season", "side", "pitcher_id"]
ONLINE_ON == <<"game", "side", "pitcher">>
MLB_ON == <<"season", "side", "pitcher">>
key_of(r, on) == [c \in DOMAIN on |-> r[on[c]]]

\* left.merge(right, on=..., how="inner"): for each row of left, in order, a
\* row for every row of right with the same key.  A joined row keeps which
\* row of each file it came from.
matches(l, i, right, on) ==
    LET js == SelectSeq([j \in DOMAIN right |-> j],
                        LAMBDA j : key_of(right[j], on) = key_of(l, on))
    IN [k \in DOMAIN js |-> [l |-> i, r |-> js[k]]]

RECURSIVE merge(_, _, _, _)
merge(left, i, right, on) ==
    IF i > Len(left) THEN <<>>
    ELSE matches(left[i], i, right, on) \o merge(left, i + 1, right, on)

\* the raw output a script records for a start: the columns it writes, the
\* simulated mean being e.  start is not a column: it is the row of truth
\* the output was simulated for.
\*   today_proj -> cache_predictions: game_id, side, pitcher_id, exp_raw, ...
\*   10_mlb_gen_simulations: season, side, pitcher_id, k_actual, exp_ks, ...
cached_row(t, i, e) ==
    [game |-> t.game, side |-> t.side, pitcher |-> t.pitcher, exp |-> e,
     start |-> i]
sim_row(t, i, e) ==
    [season |-> t.season, side |-> t.side, pitcher |-> t.pitcher, k |-> t.k,
     exp |-> e, start |-> i]

\* cache_predictions.main: updated = pd.concat([cache_df, new_rows]); the
\* day's projections are appended to the cache each time it is run
CachePredictions ==
    /\ jpc = "record" /\ jcaller = "online_calibrate"
    /\ jruns < MaxCacheRuns
    /\ \E e \in [DOMAIN truth -> {5, 7}] :
          pred' = pred
                  \o [i \in DOMAIN truth |-> cached_row(truth[i], i, e[i])]
    /\ jruns' = jruns + 1
    /\ UNCHANGED <<jcaller, truth, joined, jpc>>
    /\ UNCHANGED notJoin

\* 10_mlb_gen_simulations.main: one row per start of historical_ks.csv, with
\* the columns season, side, pitcher_id, k_actual, exp_ks, p_over
GenSimulations ==
    /\ jpc = "record" /\ jcaller = "10_mlb_calibrate"
    /\ jruns = 0
    /\ \E e \in [DOMAIN truth -> {5, 7}] :
          pred' = [i \in DOMAIN truth |-> sim_row(truth[i], i, e[i])]
    /\ jruns' = 1
    /\ UNCHANGED <<jcaller, truth, joined, jpc>>
    /\ UNCHANGED notJoin

\* online_calibrate.main: df = pred.merge(truth[[...]], on=[...], how="inner")
JoinOnline ==
    /\ jpc = "record" /\ jcaller = "online_calibrate"
    /\ jruns >= 1
    /\ joined' = [k \in DOMAIN merge(pred, 1, truth, ONLINE_ON) |->
                    LET m == merge(pred, 1, truth, ONLINE_ON)[k]
                    IN [start |-> m.r, raw_of |-> pred[m.l].start,
                        exp |-> pred[m.l].exp, k |-> truth[m.r].k]]
    /\ jpc' = "done"
    /\ UNCHANGED <<jcaller, truth, pred, jruns>>
    /\ UNCHANGED notJoin

\* 10_mlb_calibrate.main: df = actual.merge(sim, on=[...], how="inner");
\* df = df.dropna(subset=["exp_ks", "k_actual", "p_over"]).  Both files have
\* a k_actual column, the merged frame holds k_actual_x and k_actual_y, and
\* dropna raises KeyError on "k_actual".
JoinMlb ==
    /\ jpc = "record" /\ jcaller = "10_mlb_calibrate"
    /\ jruns >= 1
    /\ joined' = [k \in DOMAIN merge(truth, 1, pred, MLB_ON) |->
                    LET m == merge(truth, 1, pred, MLB_ON)[k]
                    IN [start |-> m.l, raw_of |-> pred[m.r].start,
                        exp |-> pred[m.r].exp, k |-> truth[m.l].k]]
    /\ jpc' = IF \E j \in DOMAIN pred : "k" \in DOMAIN pred[j]
              THEN "raised" ELSE "done"
    /\ UNCHANGED <<jcaller, truth, pred, jruns>>
    /\ UNCHANGED notJoin

-----------------------------------------------------------------------------
(* kpred_sim.main: rates resolved from the season's table, the missing ones  *)
(* fetched and written back                                                  *)

\* duckdb.connect(path) opens the file for reading and writing; DuckDB lets
\* one process at a time do so, a second connect raises IOException
no_lock(l) == TRUE
lock_free(l) == l = 0

\* SELECT player_id, COALESCE(k_rate, 0.20) AS k FROM player_stats
\*   ... .fetch_df().set_index("player_id")
coalesce(k) == IF k = NULLRATE THEN LEAGUE ELSE k
fetch_df(tbl) ==
    [p \in {tbl[i].pid : i \in DOMAIN tbl} |->
        coalesce(tbl[CHOOSE i \in DOMAIN tbl : tbl[i].pid = p].k)]

\* pid in df.index
in_index(pid, d) == pid \in DOMAIN d

\* def upsert(pid, k_rate): the frame and the table after the call
upsert_df(d, pid, k) ==
    IF in_index(pid, d) THEN d
    ELSE [p \in DOMAIN d \cup {pid} |-> IF p = pid THEN k ELSE d[p]]
upsert_table(tbl, d, pid, k) ==
    IF in_index(pid, d) THEN tbl ELSE Append(tbl, [pid |-> pid, k |-> k])

\* fetch_k_rate(pid, season, group) or 0.20
FetchedOrDefault == {LEAGUE, Rate(1, 4)}

\* con = duckdb.connect(...); df = con.execute("SELECT ...").fetch_df()
KsConnect ==
    \E q \in DOMAIN uruns :
        /\ uruns[q].pc = "start"
        /\ IF lock_free(db_lock)
           THEN /\ db_lock' = q
                /\ uruns' = [uruns EXCEPT ![q].pc = "pitcher",
                                          ![q].df = fetch_df(table)]
           ELSE /\ uruns' = [uruns EXCEPT ![q].pc = "raised"]
                /\ UNCHANGED db_lock
        /\ UNCHANGED <<table, table0>>
        /\ UNCHANGED notUpsert

\* the pitcher: looked up in df, or fetched and upserted; then the batter ids
\* are parsed and the run exits unless they are nine
KsPitcher ==
    \E q \in DOMAIN uruns :
        /\ uruns[q].pc = "pitcher"
        /\ \E k \in FetchedOrDefault :
              /\ table' = IF in_index(uruns[q].pitcher, uruns[q].df)
                          THEN table
                          ELSE upsert_table(table, uruns[q].df,
                                            uruns[q].pitcher, k)
              /\ IF Len(uruns[q].batters) # NSLOTS
                 THEN /\ uruns' = [uruns EXCEPT ![q].pc = "exited"]
                      /\ db_lock' = IF db_lock = q THEN 0 ELSE db_lock
                 ELSE /\ uruns' =
                           [uruns EXCEPT
                               ![q].pc = "batters",
                               ![q].pos = 1,
                               ![q].df =
                                   IF in_index(uruns[q].pitcher, uruns[q].df)
                                   THEN uruns[q].df
                                   ELSE upsert_df(uruns[q].df,
                                                  uruns[q].pitcher, k)]
                      /\ UNCHANGED db_lock
        /\ UNCHANGED table0
        /\ UNCHANGED notUpsert

\* for bid in ids: one turn
KsBatter ==
    \E q \in DOMAIN uruns :
        /\ uruns[q].pc = "batters"
        /\ uruns[q].pos <= Len(uruns[q].batters)
        /\ LET bid == uruns[q].batters[uruns[q].pos]
           IN \E k \in FetchedOrDefault :
                 /\ table' = IF in_index(bid, uruns[q].df) THEN table
                             ELSE upsert_table(table, uruns[q].df, bid, k)
                 /\ uruns' =
                       [uruns EXCEPT
                           ![q].pos = @ + 1,
                           ![q].df = IF in_index(bid, uruns[q].df)
                                     THEN uruns[q].df
                                     ELSE upsert_df(uruns[q].df, bid, k)]
        /\ UNCHANGED <<table0, db_lock>>
        /\ UNCHANGED notUpsert

\* the simulation is run and printed; con.close()
KsClose ==
    \E q \in DOMAIN uruns :
        /\ uruns[q].pc = "batters"
        /\ uruns[q].pos > Len(uruns[q].batters)
        /\ uruns' = [uruns EXCEPT ![q].pc = "done"]
        /\ db_lock' = IF db_lock = q THEN 0 ELSE db_lock
        /\ UNCHANGED <<table, table0>>
        /\ UNCHANGED notUpsert

-----------------------------------------------------------------------------
(* Calibration, apply path: today_proj.load_calibration and the record       *)
(* today_proj.main appends for a side                                        *)

\* round(x, digits), 10^digits being u: the nearest multiple of 1/u, a tie
\* going to the even one
round_to(r, u) ==
    LET q == (r.n * u) \div r.d
        twice == 2 * (r.n * u - q * r.d)
    IN Rate(IF twice < r.d THEN q
            ELSE IF twice > r.d THEN q + 1
            ELSE IF q % 2 = 0 THEN q ELSE q + 1, u)
CENTS == 100

\* params.get('slope', 1.0), params.get('intercept', 0.0)
params_get(v, dflt) == IF v = NONE THEN dflt ELSE v

\* slope, intercept = load_calibration(BASE_DIR / 'models' / 'calibration.json')
\* print("Using calibration: E[K]_cal = ...")
LoadCalibration ==
    /\ cpc = "load" /\ ccaller = "today_proj"
    /\ IF cal_json = NONE
       THEN cpc' = "raised" /\ UNCHANGED <<slope, intercept, cprinted>>
       ELSE /\ slope' = params_get(cal_json.slope, One)
            /\ intercept' = params_get(cal_json.intercept, Zero)
            /\ cprinted' = Append(cprinted, "Using calibration")
            /\ cpc' = "emit"
    /\ UNCHANGED <<ccaller, rows, df, lin, iso, lin_pkl, iso_pkl, cal_json,
                   fit_no, first_fit, er_raw, pr_raw, rec>>
    /\ UNCHANGED procs
    /\ UNCHANGED notCal

\* er_cal = slope * er_raw + intercept
er_cal_clamped(a, x, b) ==
    IF RAdd(RMul(a, x), b).n < 0 THEN Zero ELSE RAdd(RMul(a, x), b)
er_cal(a, x, b) == RAdd(RMul(a, x), b)

\* results.append({'exp_raw': round(er_raw, 2), 'p_raw': round(pr_raw, 3),
\*                 'exp_cal': round(er_cal, 2), 'p_cal': round(pr_raw, 3)})
EmitRecord ==
    /\ cpc = "emit"
    /\ rec' = [exp_raw |-> round_to(er_raw, CENTS),
               p_raw |-> round_to(pr_raw, PUNIT),
               exp_cal |-> round_to(er_cal(slope, er_raw, intercept), CENTS),
               p_cal |-> round_to(pr_raw, PUNIT)]
    /\ cpc' = "done"
    /\ UNCHANGED <<ccaller, rows, df, lin, iso, lin_pkl, iso_pkl, cal_json,
                   fit_no, first_fit, slope, intercept, er_raw, pr_raw,
                   cprinted>>
    /\ UNCHANGED procs
    /\ UNCHANGED notCal

\* after a fit has saved its model, today_proj is started on a side whose
\* simulated mean is e and whose share over the line is q; it finds in
\* models/ what the fit left there
ProjectAfterFit ==
    /\ cpc = "done" /\ ccaller # "today_proj" /\ fit_no = 1
    /\ ccaller' = "today_proj"
    /\ \E e \in {Rate(1, 1), Rate(2, 1)}, q \in {Zero, One} :
          er_raw' = e /\ pr_raw' = q
    /\ cpc' = "load"
    /\ UNCHANGED <<rows, df, lin, iso, lin_pkl, iso_pkl, cal_json, fit_no,
                   first_fit, slope, intercept, rec, cprinted>>
    /\ UNCHANGED procs
    /\ UNCHANGED notCal

-----------------------------------------------------------------------------
(* SpecGame: one realization of either sim_game, on every input *)

MID == Rate(3, 10)
LOW == Rate(1, 10)

IdleGame ==
    /\ impl = "none" /\ pks = <<>> /\ max_outs = 0 /\ outs_lambda = Zero
    /\ outs = 0 /\ pas = 0 /\ k_count = 0 /\ idx = 0 /\ pa = 0 /\ slot = 0
    /\ ret = NONE /\ gpc = "idle"

IdleFuse ==
    /\ fcaller = "none" /\ sc_p = NONE /\ sc_b = NONE
    /\ k_p = NONE /\ k_b = NONE /\ league = LEAGUE
    /\ fused = NONE /\ fpc = "idle"

IdleProj ==
    /\ caller = "none" /\ args_line = Zero /\ args_sims = 0
    /\ rp = NONE /\ batter_ps = <<>> /\ p_rates = <<>>
    /\ sm_impl = "none" /\ sm_n = 0 /\ sm_outs = Zero
    /\ results = <<>> /\ exp_raw = NONE /\ p_raw = NONE /\ ppc = "idle"
    /\ run_no = 0 /\ first_run = NONE

IdleRate ==
    /\ rcaller = "none" /\ role = "none" /\ api = NONE /\ db_row = NONE
    /\ hist_rate = NONE /\ fetched = NONE /\ resolved = NONE
    /\ rsource = "none" /\ rpc = "idle"

IdleBatch ==
    /\ bcaller = "none" /\ sched = <<>> /\ kept = <<>> /\ bi = 0
    /\ out_rows = <<>> /\ printed = <<>> /\ bpc = "idle"

IdleCal ==
    /\ ccaller = "none" /\ rows = <<>> /\ df = <<>> /\ lin = NONE /\ iso = NONE
    /\ lin_pkl = NONE /\ iso_pkl = NONE /\ cal_json = NONE
    /\ fit_no = 0 /\ first_fit = NONE
    /\ slope = NONE /\ intercept = NONE /\ er_raw = NONE /\ pr_raw = NONE
    /\ rec = NONE /\ cprinted = <<>> /\ cpc = "idle"
    /\ procs = <<>>

IdleHarv ==
    /\ hgames = <<>> /\ hg = 0 /\ hrows = <<>> /\ skips = NONE /\ hpc = "idle"

IdlePull ==
    /\ players = <<>> /\ batters = <<>> /\ stat_rows = <<>> /\ spc = "idle"

IdleJoin ==
    /\ jcaller = "none" /\ truth = <<>> /\ pred = <<>> /\ jruns = 0
    /\ joined = <<>> /\ jpc = "idle"

IdleUpsert ==
    /\ table = <<>> /\ table0 = <<>> /\ db_lock = 0 /\ uruns = <<>>

\* vectors of 0..MaxLen probabilities: all equal and interior, or one slot
\* at 0, at 1 or at another interior value
PksInputs ==
    UNION {{[i \in 1..n |-> IF i = s THEN e ELSE MID] :
              s \in 0..n, e \in {Zero, One, LOW}} : n \in 0..MaxLen}

InitGame ==
    /\ impl \in {"gen_simulations", "k_pred_core"}
    /\ pks \in PksInputs
    /\ max_outs \in IF impl = "gen_simulations" THEN (0 - 1)..MaxOuts ELSE {0}
    /\ outs_lambda \in IF impl = "k_pred_core"
                         THEN {Zero, Rate(DEFAULT_OUTS_LAMBDA, 1)}
                         ELSE {Zero}
    /\ outs = 0 /\ pas = 0 /\ k_count = 0 /\ idx = 0 /\ pa = 0 /\ slot = 0
    /\ ret = NONE
    /\ gpc = "call"
    /\ IdleFuse /\ IdleProj /\ IdleRate /\ IdleBatch /\ IdleCal
    /\ IdleHarv /\ IdlePull /\ IdleJoin /\ IdleUpsert

NextGame ==
    \/ GsEnter \/ GsStep \/ GsRaise \/ GsReturn
    \/ KpcDraw \/ KpcStep \/ KpcRaise \/ KpcReturn

SpecGame == InitGame /\ [][NextGame]_vars

-----------------------------------------------------------------------------
(* SpecFuse: merge_prob applied to every triple of rates k/n, and to the     *)
(* rates today_k_proj computes from Statcast counts                          *)

\* the rates k/n with n <= MaxOpp, the ends 0 and 1 included
RateGrid == {r \in {Rate(k, n) : k \in 0..MaxOpp, n \in 1..MaxOpp} : r.n <= r.d}

InitFuse ==
    /\ fcaller \in {"direct", "today_k_proj"}
    /\ IF fcaller = "direct"
       THEN /\ sc_p = NONE /\ sc_b = NONE
            /\ k_p \in RateGrid /\ k_b \in RateGrid
            /\ league \in {r \in RateGrid : Interior(r)}
            /\ fpc = "merge"
       ELSE /\ sc_p \in ScPulls /\ sc_b \in ScPulls
            /\ k_p = NONE /\ k_b = NONE
            /\ league = LEAGUE
            /\ fpc = "rates"
    /\ fused = NONE
    /\ IdleGame /\ IdleProj /\ IdleRate /\ IdleBatch /\ IdleCal
    /\ IdleHarv /\ IdlePull /\ IdleJoin /\ IdleUpsert

NextFuse == ScRates \/ Merge

SpecFuse == InitFuse /\ [][NextFuse]_vars

-----------------------------------------------------------------------------
(* SpecProj: one side of one game, in each script that calls sim_many        *)

\* --line in halves from 0 up to MaxLine2 / 2, --sims up to MaxSims
Lines == {Rate(l, 2) : l \in 0..MaxLine2}
Callers == {"today_proj", "10_mlb_gen_simulations", "gen_simulations",
            "today_k_proj"}
LineupLens == {0, NSLOTS - 1, NSLOTS, NSLOTS + 1}
\* lineups whose leadoff batter has rate a and whose other batters have rate b
Lineups ==
    UNION {{[i \in 1..n |-> IF i = 1 THEN a ELSE b] :
              a \in {Zero, Rate(1, 4)}, b \in {Rate(1, 4), Rate(2, 5)}} :
           n \in LineupLens}

InitProj ==
    /\ caller \in Callers
    /\ args_line \in Lines
    /\ args_sims \in 0..MaxSims
    /\ rp = MID
    /\ batter_ps \in Lineups
    /\ p_rates = <<>> /\ sm_impl = "none" /\ sm_n = 0 /\ sm_outs = Zero
    /\ results = <<>> /\ exp_raw = NONE /\ p_raw = NONE
    /\ ppc = "start"
    /\ run_no = 1 /\ first_run = NONE
    /\ IdleGame /\ IdleFuse /\ IdleRate /\ IdleBatch /\ IdleCal
    /\ IdleHarv /\ IdlePull /\ IdleJoin /\ IdleUpsert

NextProj ==
    \/ TodayProjSide \/ MlbGenSide \/ GenSimSide \/ TodayKProjSide
    \/ SimManyStep \/ SimManyRaise \/ Summarise

SpecProj == InitProj /\ [][NextProj]_vars

\* SpecRerun: the same, and the script run a second time on the same inputs
NextRerun == NextProj \/ RunAgain

SpecRerun == InitProj /\ [][NextRerun]_vars

-----------------------------------------------------------------------------
(* SpecRate: one player resolved by each script, over every answer of the    *)
(* stats service and every content of the tables                             *)

\* splits[0]["stat"]: counts up to MaxOpp, a key possibly missing, strikeouts
\* never more than the larger opportunity count
Stats ==
    {a \in [strikeOuts : MISSING..MaxOpp, battersFaced : MISSING..MaxOpp,
            plateAppearances : MISSING..MaxOpp] :
        \/ a.strikeOuts <= a.battersFaced
        \/ a.strikeOuts <= a.plateAppearances}

\* hist_rate[pid] = (mean of the pitcher's exp_ks) / 9.0
HistRates == {Rate(0, 9), Rate(2, 9)}

InitRate ==
    /\ rcaller \in {"today_proj", "10_mlb_gen_simulations", "gen_simulations"}
    /\ role \in {"pitcher", "batter"}
    /\ IF rcaller = "gen_simulations"
       THEN /\ api = NONE
            /\ db_row \in {EXC, NOROW, NULLRATE} \cup RateGrid
       ELSE /\ api \in {EXC, NOSPLITS} \cup Stats
            /\ db_row = NONE
    /\ hist_rate \in IF rcaller = "10_mlb_gen_simulations"
                       THEN {NONE} \cup HistRates ELSE {NONE}
    /\ fetched = NONE /\ resolved = NONE /\ rsource = "none"
    /\ rpc = "fetch"
    /\ IdleGame /\ IdleFuse /\ IdleProj /\ IdleBatch /\ IdleCal
    /\ IdleHarv /\ IdlePull /\ IdleJoin /\ IdleUpsert

NextRate == FetchKRate \/ TodayProjRate \/ MlbGenRate \/ GetRate

SpecRate == InitRate /\ [][NextRate]_vars

-----------------------------------------------------------------------------
(* SpecBatch: a run of today_proj or today_k_proj over a schedule of up to   *)
(* MaxGames games, each side complete, incomplete or malformed, or a run of  *)
(* build_historical_dataset over up to MaxGames games                        *)

\* what the schedule holds for a side of today_proj: the pitcher id or null,
\* the lineup column null, a comma separated list, or one with a bad token
TodayProjSides ==
    {[pid |-> TRUE, lineup |-> l, roster |-> NONE] :
        l \in {NONE, BADTOKEN} \cup {[len |-> n] : n \in LineupLens}}
    \cup {[pid |-> FALSE, lineup |-> [len |-> NSLOTS], roster |-> NONE]}

\* and for a side of today_k_proj: the probable pitcher id or NaN, the cached
\* lineup, and what roster_lineup answers when it is asked
TodayKProjSides ==
    {[pid |-> TRUE, lineup |-> [len |-> n], roster |-> r] :
        n \in {NSLOTS, NSLOTS + 1}, r \in {[len |-> NSLOTS]}}
    \cup {[pid |-> TRUE, lineup |-> [len |-> n], roster |-> r] :
        n \in {0, NSLOTS - 1},
        r \in {EXC, [len |-> NSLOTS - 1], [len |-> NSLOTS]}}
    \cup {[pid |-> FALSE, lineup |-> [len |-> NSLOTS],
           roster |-> [len |-> NSLOTS]]}

\* a game of the harvest: its detailedState, whether its box score can be
\* fetched, and for each side whether a starting pitcher is found, whether
\* his strikeOuts are there, and the lineup extract_lineup returns
HarvestSides == [sp : BOOLEAN, k : BOOLEAN,
                 lineup : {[len |-> n] : n \in {NSLOTS - 1, NSLOTS}}]
OneSide == [sp |-> TRUE, k |-> TRUE, lineup |-> [len |-> NSLOTS]]
HarvestGames ==
    [status : {"Final"}, box : {TRUE}, away : HarvestSides,
     home : HarvestSides]
    \cup [status : {"Final"}, box : {FALSE}, away : {OneSide},
          home : {OneSide}]
    \cup [status : {"Postponed"}, box : {TRUE}, away : {OneSide},
          home : {OneSide}]

InitBatch ==
    /\ \/ /\ bcaller \in {"today_proj", "today_k_proj"}
          /\ sched \in UNION {[1..(2 * g) ->
                                 IF bcaller = "today_proj" THEN TodayProjSides
                                 ELSE TodayKProjSides] : g \in 1..MaxGames}
          /\ kept = <<>> /\ bi = 0 /\ out_rows = <<>> /\ printed = <<>>
          /\ bpc = "start"
          /\ IdleHarv
       \/ /\ IdleBatch
          /\ hgames \in UNION {[1..g -> HarvestGames] : g \in 1..MaxGames}
          /\ hg = 1 /\ hrows = <<>> /\ skips = NO_SKIPS
          /\ hpc = "loop"
    /\ IdleGame /\ IdleFuse /\ IdleProj /\ IdleRate /\ IdleCal
    /\ IdlePull /\ IdleJoin /\ IdleUpsert

NextBatch ==
    \/ TodayProjStart \/ TodayKProjStart
    \/ TodayProjLoop \/ TodayKProjLoop
    \/ BatchSave
    \/ HarvestGame \/ HarvestSave

SpecBatch == InitBatch /\ [][NextBatch]_vars

-----------------------------------------------------------------------------
(* SpecFit: a calibration script fitted on every frame of up to MaxPairs     *)
(* rows, then run again on the same frame                                    *)

\* rows around the line 6.5: simulated expectation 5 or 7, simulated
\* probability 0, 0.5 or 1, actual strikeouts 6, 7 or missing
FitRows == [exp : {5, 7}, p : {0, PUNIT \div 2, PUNIT}, k : {NAN, 6, 7}]

InitFit ==
    /\ ccaller \in {"online_calibrate", "10_mlb_calibrate", "calibrate"}
    /\ rows \in UNION {[1..n -> FitRows] : n \in 0..MaxPairs}
    /\ \E pr \in Priors :
          lin_pkl = pr.lin /\ iso_pkl = pr.iso /\ cal_json = pr.json
    /\ df = <<>> /\ lin = NONE /\ iso = NONE
    /\ fit_no = 1 /\ first_fit = NONE
    /\ slope = NONE /\ intercept = NONE /\ er_raw = NONE /\ pr_raw = NONE
    /\ rec = NONE /\ cprinted = <<>>
    /\ cpc = "load" /\ procs = <<>>
    /\ IdleGame /\ IdleFuse /\ IdleProj /\ IdleRate /\ IdleBatch
    /\ IdleHarv /\ IdlePull /\ IdleJoin /\ IdleUpsert

NextFit == FitLoad \/ FitLinear \/ FitIso \/ FitSave \/ Refit

SpecFit == InitFit /\ [][NextFit]_vars

-----------------------------------------------------------------------------
(* SpecApply: today_proj calibrating one side, over every content of         *)
(* models/ and every summary of up to MaxSample realizations                 *)

\* calibration.json: absent, or slope and intercept, either key possibly
\* missing
CalSlopes == {NONE, Rate(1, 2), Rate(7, 3)}
CalIntercepts == {NONE, Rate(0 - 2, 1), Rate(20, 1)}
CalJsons == {NONE} \cup [slope : CalSlopes, intercept : CalIntercepts]

\* mlb_p_over_iso.pkl: absent, or the mapper a fit on one or two rows left
IsoModels ==
    {NONE} \cup
    {[th |-> iso_fit(d, DEFAULT_LINE)] :
        d \in UNION {[1..n -> {x \in FitRows : x.k # NAN /\ x.exp = 5}] :
                       n \in 1..2}}

InitApply ==
    /\ ccaller = "today_proj"
    /\ cal_json \in CalJsons
    /\ iso_pkl \in IsoModels
    /\ lin_pkl = NONE
    /\ \E n \in 1..MaxSample : \E total \in 0..(2 * n), over \in 0..n :
          er_raw = Rate(total, n) /\ pr_raw = Rate(over, n)
    /\ rows = <<>> /\ df = <<>> /\ lin = NONE /\ iso = NONE
    /\ fit_no = 0 /\ first_fit = NONE
    /\ slope = NONE /\ intercept = NONE
    /\ rec = NONE /\ cprinted = <<>>
    /\ cpc = "load" /\ procs = <<>>
    /\ IdleGame /\ IdleFuse /\ IdleProj /\ IdleRate /\ IdleBatch
    /\ IdleHarv /\ IdlePull /\ IdleJoin /\ IdleUpsert

NextApply == LoadCalibration \/ EmitRecord

SpecApply == InitApply /\ [][NextApply]_vars

\* SpecReuse: a fit script run to its end, then today_proj run on a side
NextReuse ==
    \/ FitLoad \/ FitLinear \/ FitIso \/ FitSave
    \/ ProjectAfterFit \/ LoadCalibration \/ EmitRecord

SpecReuse == InitFit /\ [][NextReuse]_vars

-----------------------------------------------------------------------------
(* SpecOverlap: two today_proj processes whose refits overlap, each on the   *)
(* frame it read (up to MaxPairs rows), in every interleaving                *)

NProcs == 2
OverlapRows == [exp : {5}, p : {0, PUNIT}, k : {6, 7}]

InitOverlap ==
    /\ ccaller = "online_calibrate"
    /\ procs \in [1..NProcs ->
                    [pc : {"load"},
                     frame : UNION {[1..n -> OverlapRows] : n \in 0..MaxPairs},
                     lin : {NONE}, iso : {NONE}]]
    /\ \E pr \in Priors :
          lin_pkl = pr.lin /\ iso_pkl = pr.iso /\ cal_json = pr.json
    /\ rows = <<>> /\ df = <<>> /\ lin = NONE /\ iso = NONE
    /\ fit_no = 0 /\ first_fit = NONE
    /\ slope = NONE /\ intercept = NONE /\ er_raw = NONE /\ pr_raw = NONE
    /\ rec = NONE /\ cprinted = <<>>
    /\ cpc = "idle"
    /\ IdleGame /\ IdleFuse /\ IdleProj /\ IdleRate /\ IdleBatch
    /\ IdleHarv /\ IdlePull /\ IdleJoin /\ IdleUpsert

NextOverlap == OverlapFit \/ OverlapDumpLin \/ OverlapDumpIso

SpecOverlap == InitOverlap /\ [][NextOverlap]_vars

-----------------------------------------------------------------------------
(* SpecPull: stat_pull.pull_for_season on one side of a box score, over      *)
(* every order and content of up to MaxPlayers pitching lines                *)

\* innings pitched "0.0", "0.2" and "1.0"
Innings == {[w |-> 0, f |-> 0], [w |-> 0, f |-> 2], [w |-> 1, f |-> 0]}
PitchingLines ==
    [gamesStarted : {0, 1}, inningsPitched : Innings,
     battersFaced : {MISSING, 0, 3}, strikeOuts : {MISSING, 0, 2}]
BattingLines ==
    [strikeOuts : {MISSING, 1}, plateAppearances : {MISSING, 0, 4},
     atBats : {MISSING, 3}]

InitPull ==
    /\ players \in UNION {[1..n -> PitchingLines] : n \in 0..MaxPlayers}
    /\ batters \in UNION {[1..n -> BattingLines] : n \in 0..MaxBatters}
    /\ stat_rows = <<>>
    /\ spc = "side"
    /\ IdleGame /\ IdleFuse /\ IdleProj /\ IdleRate /\ IdleBatch
    /\ IdleCal /\ IdleHarv /\ IdleJoin /\ IdleUpsert

NextPull == PullSide

SpecPull == InitPull /\ [][NextPull]_vars

-----------------------------------------------------------------------------
(* SpecJoin: the starts of up to MaxStarts sides, their raw outputs recorded *)
(* once (10_mlb_gen_simulations) or up to MaxCacheRuns times                 *)
(* (cache_predictions), and the join of a fit script                         *)

\* a start as build_historical_dataset writes it: one row per game and side
Starts ==
    [season : {2024, 2025}, game : 1..MaxStarts, side : {"away", "home"},
     pitcher : 1..2, k : {6, 7}]

\* a game has one season and one start per side; the two starters of a game
\* are two pitchers
TruthFiles ==
    {t \in UNION {[1..n -> Starts] : n \in 1..MaxStarts} :
        \A i, j \in DOMAIN t :
            (i # j /\ t[i].game = t[j].game) =>
                /\ t[i].season = t[j].season
                /\ t[i].side # t[j].side
                /\ t[i].pitcher # t[j].pitcher}

InitJoin ==
    /\ jcaller \in {"online_calibrate", "10_mlb_calibrate"}
    /\ truth \in TruthFiles
    /\ pred = <<>> /\ jruns = 0 /\ joined = <<>>
    /\ jpc = "record"
    /\ IdleGame /\ IdleFuse /\ IdleProj /\ IdleRate /\ IdleBatch
    /\ IdleCal /\ IdleHarv /\ IdlePull /\ IdleUpsert

NextJoin == CachePredictions \/ GenSimulations \/ JoinOnline \/ JoinMlb

SpecJoin == InitJoin /\ [][NextJoin]_vars

-----------------------------------------------------------------------------
(* SpecUpsert: two runs of kpred_sim.main on one season's table, started in  *)
(* any order and at any time, over players 1..MaxPid                         *)

\* the table 02_stat_pull leaves: a row per player of the roster (here in
\* the order of the ids), k_rate null for a player without opportunities
StatTables ==
    {t \in UNION {[1..n -> [pid : 1..MaxPid, k : {NULLRATE, Rate(1, 4)}]] :
                    n \in 0..MaxPid} :
        \A i, j \in DOMAIN t : i < j => t[i].pid < t[j].pid}

\* --batters: nine ids or eight, the leadoff batter any player and the
\* others player MaxPid
BatterIds ==
    {[i \in 1..n |-> IF i = 1 THEN a ELSE MaxPid] :
        a \in 1..MaxPid, n \in {NSLOTS - 1, NSLOTS}}

InitUpsert ==
    /\ table \in StatTables
    /\ table0 = table
    /\ db_lock = 0
    /\ uruns \in [{1, 2} ->
                    [pc : {"start"}, pitcher : 1..MaxPid, batters : BatterIds,
                     pos : {0}, df : {<<>>}]]
    /\ IdleGame /\ IdleFuse /\ IdleProj /\ IdleRate /\ IdleBatch
    /\ IdleCal /\ IdleHarv /\ IdlePull /\ IdleJoin

NextUpsert == KsConnect \/ KsPitcher \/ KsBatter \/ KsClose

SpecUpsert == InitUpsert /\ [][NextUpsert]_vars

-----------------------------------------------------------------------------
(* Claims about one realization *)

\* C1: under the fixed-outs stopping rule (gen_simulations.sim_game), for
\* every vector of length >= 1 and every max_outs >= 1, a realization never
\* raises, resolves one plate appearance per out, can always take its next
\* step, and returns after exactly max_outs plate appearances with
\* outs = max_outs the accumulated strikeout count, an integer in 0..max_outs.
C1_FixedOutsRealization ==
    (impl = "gen_simulations" /\ Len(pks) >= 1 /\ max_outs >= 1) =>
        /\ gpc # "raised"
        /\ gpc = "loop" =>
              /\ pa = outs /\ outs <= max_outs
              /\ k_count \in 0..outs
              /\ ENABLED (GsStep \/ GsReturn)
        /\ gpc = "done" =>
              /\ outs = max_outs /\ pa = max_outs
              /\ ret = k_count /\ ret \in 0..max_outs

\* a finished fixed-outs realization that went round the order and struck
\* out some but not all batters
C1_Witness ==
    /\ impl = "gen_simulations" /\ gpc = "done"
    /\ Len(pks) >= 1 /\ max_outs > Len(pks)
    /\ ret > 0 /\ ret < max_outs

\* C2: in a realization over nine slots, the i-th plate appearance (from 0)
\* is taken by slot i mod 9.
C2_CyclicBattingOrder ==
    (pa >= 1 /\ Len(pks) = NSLOTS) => slot = (pa - 1) % NSLOTS

\* the same for the fixed-outs loop alone, over a vector of any length n:
\* slot i mod n
C2_FixedOutsCyclesOverVector ==
    (impl = "gen_simulations" /\ pa >= 1 /\ gpc # "raised")
        => slot = (pa - 1) % Len(pks)

\* C27: for a vector of probabilities inside (0,1) and a threshold of at
\* least one out, the expectation of a realization, which the mean of the
\* results tends to as sims grows, is the threshold times the mean of the
\* vector (5.4 for nine probabilities of 0.30 and a threshold of 18).
C27_MeanIsOutsTimesMeanRate ==
    (gpc = "done" /\ \A i \in DOMAIN pks : Interior(pks[i])) =>
        /\ (impl = "gen_simulations" /\ Len(pks) >= 1 /\ max_outs >= 1) =>
              RateEq(gs_mean(pks, max_outs, 0, 0),
                     RateTimes(max_outs, mean_of(pks, Len(pks))))
        /\ (impl = "k_pred_core" /\ Len(pks) = NSLOTS /\ outs_lambda.n >= 1) =>
              RateLe(kpc_mean_floor(pks, outs_lambda),
                     RateMul(outs_lambda, mean_of(pks, NSLOTS)))

-----------------------------------------------------------------------------
(* Claims about the fusion *)

\* C6: for pitcher and batter rates strictly inside (0,1) and a league rate
\* inside (0,1), merge_prob returns a probability strictly inside (0,1), and
\* a larger pitcher rate (batter fixed) or a larger batter rate (pitcher
\* fixed) gives a strictly larger fused probability.
C6_MergeInsideAndIncreasing ==
    (fpc = "done" /\ Interior(k_p) /\ Interior(k_b) /\ Interior(league)) =>
        /\ IsRate(fused) /\ Interior(fused)
        /\ \A r \in {x \in RateGrid : Interior(x)} :
              /\ RateLt(k_p, r) => RateLt(fused, merge_prob(r, k_b, league))
              /\ RateLt(k_b, r) => RateLt(fused, merge_prob(k_p, r, league))

\* a fused probability of two rates on opposite sides of a league rate that
\* is not the default
C6_Witness ==
    /\ fpc = "done" /\ fcaller = "direct"
    /\ Interior(k_p) /\ Interior(k_b) /\ league # LEAGUE
    /\ RateLt(k_p, league) /\ RateLt(league, k_b)
    /\ IsRate(fused) /\ RateLt(k_p, fused) /\ RateLt(fused, k_b)

C8_FusionNeverRaises ==
    fcaller = "today_k_proj" =>
        /\ fpc \in {"merge", "done"} => Interior(k_p) /\ Interior(k_b)
        /\ fpc = "done" => fused # RAISE

-----------------------------------------------------------------------------
(* Claims about the scripts that call sim_many *)

\* Every value the step-by-step sim_game returns is one the set-valued
\* sim_game holds, and it raises only where sim_game_raises says so.
SimGameAgrees ==
    LET a == IF impl = "gen_simulations" THEN Rate(max_outs, 1)
             ELSE outs_lambda
    IN /\ gpc = "done" => ret \in sim_game(impl, pks, a)
       /\ gpc = "raised" => sim_game_raises(impl, pks, a)

\* C3: the array sim_many returns to the script holds exactly --sims
\* realization counts.
C3_ResultHasSimsEntries ==
    (ppc = "done" /\ args_sims >= 1) => Len(results) = args_sims

\* C4: for a side with a nine-batter lineup, the vector passed to sim_many
\* has nine entries, entry i being merge_prob(pitcher rate, rate of batter i,
\* league rate).
C4_VectorIsNineFused ==
    (ppc \in {"sim", "done"} /\ args_sims >= 1
        /\ Len(batter_ps) = NSLOTS) =>
        /\ Len(p_rates) = NSLOTS
        /\ \A i \in 1..NSLOTS :
              p_rates[i] = merge_prob(rp, batter_ps[i], LEAGUE)

\* C5: p_raw is the share of the realization counts that are >= --line.
C5_PRawIsShareOverLine ==
    (ppc = "done" /\ args_sims >= 1 /\ results # <<>>) =>
        RateEq(p_raw, MeanGE(results, args_line))

\* C22: a configuration with sims <= 0 or with int(line * 3) < 1 is rejected
\* before any realization: no realization is ever collected for it and no
\* summary (mean, share over the line) is ever made from it.
C22_BadConfigRejected ==
    (args_sims <= 0 \/ int_line_3(args_line) < 1) =>
        results = <<>> /\ ppc # "done"

\* C25: two runs of a script on the same vector, threshold and sims (there
\* is no seed to hold equal besides) return the same realization counts.
C25_SameInputsSameResult ==
    (run_no = 2 /\ ppc = "done") => results = first_run.results

-----------------------------------------------------------------------------
(* Claims about rate resolution *)

\* the player's record in the primary source, by role: strikeouts over
\* batters faced for a pitcher, over plate appearances for a batter; for
\* gen_simulations the stored k_rate
opportunities_field_by_role(r) ==
    IF r = "pitcher" THEN "battersFaced" ELSE "plateAppearances"
HasRecord ==
    IF rcaller = "gen_simulations" THEN IsRate(db_row) ELSE IsStat(api)
RecordOpp ==
    IF rcaller = "gen_simulations" THEN db_row.d
    ELSE get_or_0(api[opportunities_field_by_role(role)])
RecordK ==
    IF rcaller = "gen_simulations" THEN db_row.n
    ELSE get_or_0(api.strikeOuts)
HasPrimary == HasRecord /\ RecordOpp > 0

\* C9: the resolved rate is the primary rate when a record with
\* opportunities > 0 exists, otherwise the fallback rate when the player is
\* in the fallback source, otherwise exactly the global default.
C9_FallbackChain ==
    rpc = "done" =>
        IF HasPrimary THEN RateEq(resolved, Rate(RecordK, RecordOpp))
        ELSE IF hist_rate # NONE THEN resolved = hist_rate
        ELSE resolved = GLOBAL_DEFAULT

\* C10, for a player resolved as a batter: a record with opportunities = 0 is
\* never the source of the resolved rate, and a record with no strikeout in
\* opportunities > 0 resolves to the rate 0 from the primary source.
C10_MissingIsNotZero ==
    (rpc = "done" /\ role = "batter" /\ HasRecord) =>
        /\ RecordOpp = 0 => rsource # "primary"
        /\ (RecordOpp > 0 /\ RecordK = 0) =>
              rsource = "primary" /\ RateEq(resolved, Zero)

\* C11: rate resolution always ends with a rate, and that rate lies strictly
\* inside (0,1) (it is clamped to [eps, 1-eps]).
C11_ResolvedInsideUnit ==
    /\ rpc = "done" => IsRate(resolved) /\ Interior(resolved)
    /\ rpc # "done" => ENABLED NextRate

\* C12: the rate fetched for a pitcher is strikeouts over batters faced, the
\* rate fetched for a batter is strikeouts over plate appearances (no rate
\* when that count is 0).
C12_RatePerRole ==
    (rpc \in {"chain", "done"} /\ IsStat(api)) =>
        fetched = rate_or_none(get_or_0(api.strikeOuts),
                               get_or_0(api[opportunities_field_by_role(role)]))

-----------------------------------------------------------------------------
(* Claims about the loop over the sides *)

\* the loop has gone through side i
Processed(i) == \E k \in DOMAIN kept : kept[k] = i /\ k < bi
\* a row was emitted for side i; a skip of side i was recorded with reason r
Emitted(i) == \E k \in DOMAIN out_rows : out_rows[k] = i
SkippedFor(i, r) ==
    \E k \in DOMAIN printed : printed[k].side = i /\ printed[k].msg = r
Skipped(i) ==
    \E k \in DOMAIN printed : printed[k].side = i /\ printed[k].msg # "ExpKs"

\* the lineup a side is projected with: today_k_proj takes the first nine of
\* the active roster when the cached lineup is short
LineupOf(i) ==
    IF bcaller = "today_k_proj" /\ sched[i].lineup.len < NSLOTS
    THEN sched[i].roster ELSE sched[i].lineup

\* C13: a side the loop has gone through whose lineup is a list of other than
\* nine batter ids has no row emitted and a skip for its lineup recorded (the
\* scripts' word for the reason "bad_lineup" is "lineup incomplete").
C13_BadLineupSkipped ==
    \A i \in DOMAIN sched :
        (Processed(i) /\ HasLen(LineupOf(i)) /\ LineupOf(i).len # NSLOTS) =>
            ~Emitted(i) /\ SkippedFor(i, "lineup incomplete")

\* C14: a run is never aborted by one of its sides, and when it ends every
\* side of the schedule is exactly one of emitted and skipped with a reason.
C14_EverySideSettled ==
    /\ bpc # "aborted"
    /\ bpc = "done" => \A i \in DOMAIN sched : Emitted(i) # Skipped(i)

\* the other side of side i's game; a side with its pitcher id and a lineup of
\* nine; a side whose pitcher id or lineup is missing from the schedule
Sibling(i) == CHOOSE j \in game_sides(i) : j # i
CompleteSide(i) ==
    sched[i].pid /\ HasLen(LineupOf(i)) /\ LineupOf(i).len = NSLOTS
MissingSide(i) == ~sched[i].pid \/ sched[i].lineup = NONE

\* C28: when a run ends, a complete side whose opponent in the same game
\* misses its pitcher id or its lineup has its row emitted.
C28_SkipIsPerSide ==
    bpc = "done" =>
        \A i \in DOMAIN sched :
            (CompleteSide(i) /\ MissingSide(Sibling(i))) => Emitted(i)

\* the sides a run examined, the rows it emitted and the skips it counted
\* per side.  build_historical_dataset counts in skips; today_proj and
\* today_k_proj keep no counters, the messages they print stand for them.
Harvested(g) ==
    /\ hgames[g].status = "Final" /\ hgames[g].box
    /\ hgames[g].away.sp /\ hgames[g].home.sp
SidesExamined ==
    IF hpc = "done" THEN 2 * Cardinality({g \in DOMAIN hgames : Harvested(g)})
    ELSE Len(sched)
RowsEmitted == IF hpc = "done" THEN Len(hrows) ELSE Len(out_rows)
SkipsCounted ==
    IF hpc = "done" THEN skips.k_missing + skips.bad_lineup
    ELSE Cardinality({k \in DOMAIN printed : printed[k].msg # "ExpKs"})

\* C26: at the end of a batch the rows emitted plus the skips counted per
\* side are the sides examined, and no side is both emitted and skipped.
C26_SkipsAddUp ==
    (hpc = "done" \/ bpc = "done") =>
        /\ RowsEmitted + SkipsCounted = SidesExamined
        /\ \A i \in DOMAIN sched : ~(Emitted(i) /\ Skipped(i))

-----------------------------------------------------------------------------
(* Claims about the calibration fit *)

\* raw probabilities the fitted mapper is evaluated at, in thousandths
ProbeGrid == {0, PUNIT \div 4, PUNIT \div 2, 3 * (PUNIT \div 4), PUNIT}

\* C17: the fitted isotonic mapper is non-decreasing over raw inputs a <= b,
\* an input below the smallest fitted raw probability maps to the value of
\* the lowest breakpoint and an input above the largest to the value of the
\* highest breakpoint.
C17_MapperMonotoneAndClipped ==
    iso # NONE =>
        /\ \A t \in ProbeGrid : IsRate(iso_predict(iso.th, t))
        /\ \A a \in ProbeGrid, b \in ProbeGrid :
              a <= b => RateLe(iso_predict(iso.th, a), iso_predict(iso.th, b))
        /\ \A t \in ProbeGrid :
              /\ t < iso.th[1].x => RateEq(iso_predict(iso.th, t), iso.th[1].y)
              /\ t > iso.th[Len(iso.th)].x =>
                    RateEq(iso_predict(iso.th, t), iso.th[Len(iso.th)].y)

\* a mapper fitted on raw probabilities 0.5 and 1 only, rising between them:
\* inputs 0 and 0.25 lie below its domain, 0.75 between its breakpoints
C17_Witness ==
    /\ iso # NONE /\ Len(iso.th) = 2
    /\ iso.th[1].x = PUNIT \div 2 /\ iso.th[2].x = PUNIT
    /\ RateLt(iso.th[1].y, iso.th[2].y)
    /\ RateEq(iso_predict(iso.th, 0), iso.th[1].y)
    /\ RateLt(iso.th[1].y, iso_predict(iso.th, 3 * (PUNIT \div 4)))

\* C18: a fit on fewer than the minimum number of pairs (two; zero or one
\* pair is too few) fails and leaves the persisted models as they were.
C18_TooFewPairsRejected ==
    (cpc \in {"iso", "save", "done"} /\ fit_no = 1) => Len(df) >= 2

\* C20: a fit repeated on the same inputs leaves in the files it writes
\* exactly the models the first fit left, whatever the files held in between.
C20_RefitIdentical ==
    (fit_no = 2 /\ cpc = "done") =>
        IF ccaller = "calibrate" THEN cal_json = first_fit[3]
        ELSE lin_pkl = first_fit[1] /\ iso_pkl = first_fit[2]

\* a repeated fit of both models on two rows, neither model degenerate
C20_Witness ==
    /\ fit_no = 2 /\ cpc = "done" /\ ccaller = "online_calibrate"
    /\ Len(df) = 2
    /\ lin_pkl # PRIOR_LIN /\ lin_pkl.slope.n # 0
    /\ Len(iso_pkl.th) = 2 /\ iso_pkl # PRIOR_ISO

-----------------------------------------------------------------------------
(* Claims about the calibrated record *)

\* slope * er_raw + intercept with the parameters calibration.json holds
PersistedLine == RAdd(RMul(cal_json.slope, er_raw), cal_json.intercept)
HasBothParams == cal_json # NONE /\ cal_json.slope # NONE
                    /\ cal_json.intercept # NONE
Abs(x) == IF x < 0 THEN 0 - x ELSE x

C16_PCalIsMapped ==
    (cpc = "done" /\ iso_pkl # NONE) =>
        RateEq(rec.p_cal,
               round_to(iso_predict(iso_pkl.th, rec.p_raw.n), PUNIT))

\* C19: a record computed with a default in place of a missing parameter, or
\* with no fitted mapper, comes with a notice of it.
C19_IdentityIsFlagged ==
    (cpc = "done" /\ (~HasBothParams \/ iso_pkl = NONE)) =>
        \E k \in DOMAIN cprinted : cprinted[k] # "Using calibration"

\* C29: the slope and intercept a projection run applies after a fit has
\* saved its model are the slope and intercept of that fit.
C29_RefitIsReused ==
    (ccaller = "today_proj" /\ fit_no = 1 /\ cpc \in {"emit", "done"}) =>
        RateEq(slope, lin.slope) /\ RateEq(intercept, lin.intercept)

\* C23: once the overlapping refits have ended, the two files of models/ hold
\* the linear part and the isotonic part of one and the same fit.
C23_OneFitPersisted ==
    ((\A q \in DOMAIN procs : procs[q].pc \in {"done", "raised"})
        /\ (\E q \in DOMAIN procs : procs[q].pc = "done")) =>
        \E q \in DOMAIN procs :
            /\ procs[q].pc = "done"
            /\ lin_pkl = procs[q].lin /\ iso_pkl = procs[q].iso

\* C21: in the joined frame every row pairs a start with a raw output that
\* was recorded for that start, and no start has more than one row.
C21_OnePairPerStart ==
    jpc = "done" =>
        /\ \A k \in DOMAIN joined : joined[k].raw_of = joined[k].start
        /\ \A k, m \in DOMAIN joined :
              joined[k].start = joined[m].start => k = m

-----------------------------------------------------------------------------
(* Claims about the write-back of rates *)

\* C24: whatever the two runs do and in whatever order, the table holds at
\* most one row per player and the rows it held before are where they were
\* and as they were: a write-back only ever adds a row for a player the
\* table does not have.
C24_WriteBackMergeSafe ==
    /\ \A i, j \in DOMAIN table : table[i].pid = table[j].pid => i = j
    /\ Len(table) >= Len(table0)
    /\ \A i \in DOMAIN table0 : table[i] = table0[i]

\* both runs needed a player the table did not have; one wrote the rate back
\* and the other, run through to its end, met the player in the table
C24_Witness ==
    /\ \A q \in DOMAIN uruns : uruns[q].pc = "done"
    /\ \E p \in 1..MaxPid :
          /\ \A i \in DOMAIN table0 : table0[i].pid # p
          /\ \E i \in DOMAIN table : table[i].pid = p
          /\ \A q \in DOMAIN uruns : uruns[q].pitcher = p

-----------------------------------------------------------------------------
(* Claims about the stat harvest *)

\* C30: every rate record appended for a side has k_total >= 0 and
\* opportunities >= 0.
C30_CountsNonNegative ==
    \A k \in DOMAIN stat_rows :
        stat_rows[k].k_total >= 0 /\ stat_rows[k].opportunities >= 0

====
